---------------------------- MODULE Spec2Model ----------------------------
(***************************************************************************)
(* A model of parts of the MPC compiler:                                   *)
(*   - tac_cfg_to_ssa (compiler/tac_cfg_to_ssa.py): Phi placement over     *)
(*     dominance frontiers and renaming over the dominator tree;           *)
(*   - VarType (compiler/ast_shared.py): merge, could_become, ...;         *)
(*   - _FunctionConverter.visit_FunctionDef, _ModuleConverter.visit_Module *)
(*     and _StatementConverter.visit_For                                   *)
(*     (compiler/ast_to_restricted_ast.py);                                *)
(*   - the biometric benchmark (benchmarks/biometric.py).                  *)
(***************************************************************************)
EXTENDS Integers, Sequences, FiniteSets, TLC

VARIABLES
    \* ---- tac_cfg_to_ssa ----
    fn,                   \* the tac_cfg.Function handed to tac_cfg_to_ssa
    pc,                   \* position in tac_cfg_to_ssa
    phi_functions,        \* result: block -> list of Phi
    assignments,          \* result: block -> list of Assign
    terminator,           \* result: block -> terminator
    dominance_frontiers,  \* block -> set of blocks
    dominance_tree,       \* block -> set of dominator-tree children
    iter_count,
    has_already,
    work,
    W,
    S,
    C,
    frames,               \* the activations of search, innermost last
    golden,               \* the stored result of the ssa stage (ssa.txt)
    \* ---- VarType ----
    vt_args,              \* arguments of the VarType operation
    vt_flags,             \* keyword flags of merge
    vt_out,               \* what the operation returned or raised
    \* ---- visit_FunctionDef ----
    fd_args,              \* node.args.args: the annotations, in order
    fd_out,               \* the converted parameters, or the error
    \* ---- _ModuleConverter.visit_Module ----
    md_node,              \* the ast.Module and the source text
    md_pc,                \* position in visit_Module
    md_i,                 \* statements of node.body the loop has been through
    main_function,        \* the converted main function
    var_values,           \* name -> constant of the module-level assignments
    md_out,               \* what visit_Module returned or raised
    \* ---- the biometric program ----
    bio_args,             \* C, D, S, N
    bio_pc,               \* position in biometric
    bio_i,                \* i
    bio_j,                \* j
    bio_sum,              \* sum
    min_sum,
    min_index,
    \* ---- _StatementConverter.visit_For ----
    for_node,             \* the ast.For
    for_out               \* the converted For, or the error

ssa_vars == << fn, pc, phi_functions, assignments, terminator,
               dominance_frontiers, dominance_tree, iter_count,
               has_already, work, W, S, C, frames, golden >>
vt_vars == << vt_args, vt_flags, vt_out >>
fd_vars == << fd_args, fd_out >>
md_vars == << md_node, md_pc, md_i, main_function, var_values, md_out >>
bio_vars == << bio_args, bio_pc, bio_i, bio_j, bio_sum, min_sum, min_index >>
for_vars == << for_node, for_out >>
vars == << ssa_vars, vt_vars, fd_vars, md_vars, bio_vars, for_vars >>

None == "None"

(***************************************************************************)
(* Generic helpers                                                         *)
(***************************************************************************)
Range(s) == { s[i] : i \in DOMAIN s }

RECURSIVE SetToSortedSeq(_)
SetToSortedSeq(T) ==
    IF T = {} THEN << >>
    ELSE LET m == CHOOSE x \in T : \A y \in T : x <= y
         IN << m >> \o SetToSortedSeq(T \ {m})

Last(s) == s[Len(s)]
Front(s) == SubSeq(s, 1, Len(s) - 1)

(***************************************************************************)
(* IR values.  A variable is its name and its rename subscript; the        *)
(* renamed variable Var(f"{V.name}!{i}") is the pair (name, i).            *)
(***************************************************************************)
NoSub == -1

Var(name) == [kind |-> "Var", name |-> name, sub |-> NoSub, index |-> ""]
Index(array, index) ==
    [kind |-> "Index", name |-> array, sub |-> NoSub, index |-> index]

ConstantInt(v) == [kind |-> "ConstantInt", args |-> << >>, value |-> v]
VarRHS(v) == [kind |-> "Var", args |-> << v >>, value |-> 0]
IndexRHS(a, i) == [kind |-> "Index", args |-> << a, i >>, value |-> 0]
BinOp(l, r) == [kind |-> "BinOp", args |-> << l, r >>, value |-> 0]
UnaryOp(o) == [kind |-> "UnaryOp", args |-> << o >>, value |-> 0]

Assign(lhs, rhs) == [lhs |-> lhs, rhs |-> rhs]
Phi(lhs, rhs) == [lhs |-> lhs, rhs |-> rhs]

Jump == [kind |-> "Jump", var |-> Var("")]
ConditionalJump(c) == [kind |-> "ConditionalJump", var |-> c]
Return(v) == [kind |-> "Return", var |-> v]


(***************************************************************************)
(* The inputs: control flow graphs of the shapes the CFG builder makes     *)
(* (straight line, if without else, if/else, loop, if/elif with one join  *)
(* of three edges, nested if), blocks                                      *)
(* numbered in node order, block 1 the entry block and the last block the  *)
(* exit block.  Every ConditionalJump reads p, the Return reads x.         *)
(***************************************************************************)
MaxDefs == 2    \* assignments in the whole function

Shapes == {
    [ name |-> "straight",
      succ |-> << <<2>>, << >> >>,
      term |-> << Jump, Return(Var("x")) >> ],
    [ name |-> "if",
      succ |-> << <<2, 3>>, <<3>>, << >> >>,
      term |-> << ConditionalJump(Var("p")), Jump, Return(Var("x")) >> ],
    [ name |-> "ifelse",
      succ |-> << <<2, 3>>, <<4>>, <<4>>, << >> >>,
      term |-> << ConditionalJump(Var("p")), Jump, Jump, Return(Var("x")) >> ],
    [ name |-> "loop",
      succ |-> << <<2>>, <<3, 4>>, <<2>>, << >> >>,
      term |-> << Jump, ConditionalJump(Var("p")), Jump, Return(Var("x")) >> ],
    [ name |-> "elif",
      succ |-> << <<2, 3>>, <<5>>, <<4, 5>>, <<5>>, << >> >>,
      term |-> << ConditionalJump(Var("p")), Jump, ConditionalJump(Var("p")),
                  Jump, Return(Var("x")) >> ],
    [ name |-> "nestedif",
      succ |-> << <<2, 5>>, <<3, 4>>, <<4>>, <<5>>, << >> >>,
      term |-> << ConditionalJump(Var("p")), ConditionalJump(Var("p")), Jump,
                  Jump, Return(Var("x")) >> ] }

\* One statement of every kind of right-hand side and of left-hand side.
Stmts == {
    Assign(Var("x"), ConstantInt(1)),
    Assign(Var("x"), BinOp(Var("x"), Var("p"))),
    Assign(Var("p"), VarRHS(Var("x"))),
    Assign(Var("y"), UnaryOp(Var("x"))),
    Assign(Var("y"), IndexRHS(Var("p"), Var("x"))),
    Assign(Index("p", "x"), VarRHS(Var("y"))) }

\* A way of putting statements into blocks: a list of (block, statement),
\* blocks in non-decreasing order.
IsPlacement(pl) == \A i \in 1..(Len(pl) - 1) : pl[i][1] <= pl[i + 1][1]

RECURSIVE BodyOf(_, _, _)
BodyOf(pl, b, i) ==
    IF i > Len(pl) THEN << >>
    ELSE (IF pl[i][1] = b THEN << pl[i][2] >> ELSE << >>) \o BodyOf(pl, b, i + 1)

Function(shape, pl) ==
    [ parameters  |-> << Var("p") >>,
      succ        |-> shape.succ,
      terminator  |-> shape.term,
      assignments |-> [b \in DOMAIN shape.succ |-> BodyOf(pl, b, 1)],
      entry_block |-> 1,
      exit_block  |-> Len(shape.succ) ]

\* f is one of the inputs: a shape with at most MaxDefs statements in it.
IsInput(f) ==
    \E sh \in Shapes : \E k \in 0..MaxDefs :
        \E pl \in [1..k -> (1..Len(sh.succ)) \X Stmts] :
            IsPlacement(pl) /\ f = Function(sh, pl)

Blocks(f) == DOMAIN f.succ

(***************************************************************************)
(* The graph queries of networkx                                           *)
(***************************************************************************)
successors(f, X) == f.succ[X]

\* predecessors(Y) enumerates the sources of Y's in-edges in the order the
\* edges were added: _tac_cfg_to_ssa_struct adds them walking the nodes in
\* node order.
predecessors(f, Y) ==
    SetToSortedSeq({ X \in Blocks(f) : Y \in Range(f.succ[X]) })

RECURSIVE DomFix(_, _)
DomFix(f, D) ==
    LET Meet(b) == LET P == Range(predecessors(f, b))
                   IN { x \in Blocks(f) : P # {} /\ \A q \in P : x \in D[q] }
        D2 == [b \in Blocks(f) |->
                 IF b = f.entry_block THEN {b} ELSE {b} \cup Meet(b)]
    IN IF D2 = D THEN D ELSE DomFix(f, D2)

\* Dominators(f)[b]: the blocks that dominate b.
Dominators(f) == DomFix(f, [b \in Blocks(f) |-> Blocks(f)])

\* networkx.immediate_dominators: idom[entry] = entry.
immediate_dominators(f) ==
    LET D == Dominators(f)
    IN [b \in Blocks(f) |->
          IF b = f.entry_block THEN b
          ELSE CHOOSE d \in D[b] \ {b} : D[d] = D[b] \ {b}]

_compute_dominance_tree(f) ==
    LET idom == immediate_dominators(f)
    IN [v \in Blocks(f) |-> { k \in Blocks(f) : k # v /\ idom[k] = v }]

\* The runner of networkx.dominance_frontiers: from predecessor v of the join
\* node u up the dominator tree, until idom[u].
RECURSIVE Runner(_, _, _)
Runner(idom, u, v) ==
    IF v = idom[u] THEN {} ELSE {v} \cup Runner(idom, u, idom[v])

networkx_dominance_frontiers(f) ==
    LET idom == immediate_dominators(f)
    IN [X \in Blocks(f) |->
          { u \in Blocks(f) :
              /\ Len(predecessors(f, u)) >= 2
              /\ \E v \in Range(predecessors(f, u)) : X \in Runner(idom, u, v) }]


\* Every lhs of the function, blocks in node order, assignments in order.
RECURSIVE LhsFrom(_, _)
LhsFrom(f, b) ==
    IF b > Len(f.succ) THEN << >>
    ELSE [i \in 1..Len(f.assignments[b]) |-> f.assignments[b][i].lhs]
         \o LhsFrom(f, b + 1)

RECURSIVE FirstOccurrences(_, _)
FirstOccurrences(s, seen) ==
    IF s = << >> THEN << >>
    ELSE IF Head(s) \in seen THEN FirstOccurrences(Tail(s), seen)
    ELSE << Head(s) >> \o FirstOccurrences(Tail(s), seen \cup {Head(s)})

\* The dictionary blocks_setting_vars: its keys in insertion order, and the
\* set of blocks of each key.
_compute_blocks_setting_vars(f) ==
    [ keys   |-> FirstOccurrences(LhsFrom(f, 1), {}),
      blocks |-> [V \in Range(LhsFrom(f, 1)) |->
                    { b \in Blocks(f) :
                        \E i \in DOMAIN f.assignments[b] :
                            f.assignments[b][i].lhs = V }] ]

(***************************************************************************)
(* Phi placement (tac_cfg_to_ssa, lines 109-133)                           *)
(***************************************************************************)
\* Mutant of NewPhi: one operand too many.
NewPhi_ExtraOperand(V, num_predecessors) ==
    Phi(V, [k \in 1..(num_predecessors + 1) |-> V])

\* ssa.Phi(lhs=V, rhs=[V] * num_predecessors)
NewPhi(V, num_predecessors) == Phi(V, [k \in 1..num_predecessors |-> V])

\* Mutant of NeedWork: the stamp work is not consulted.
NeedWork_NoStamp(Ys) == Ys

\* Lines 130-132: of the blocks that get a Phi-function, those not yet put on
\* W for this variable.
NeedWork(Ys) == { Y \in Ys : work[Y] < iter_count }

\* Mutant of NeedPhi: the stamp has_already is not consulted.
NeedPhi_NoStamp(X) == dominance_frontiers[X]

\* The blocks of dominance_frontiers[X] that have no Phi for this variable yet.
NeedPhi(X) == { Y \in dominance_frontiers[X] : has_already[Y] < iter_count }

(***************************************************************************)
(* Renaming (tac_cfg_to_ssa, lines 135-236)                                *)
(***************************************************************************)
\* S and C as line 137-146 leave them: the parameters first, then every key
\* of blocks_setting_vars.
InitialS(f) ==
    LET bsv == _compute_blocks_setting_vars(f)
    IN [V \in Range(f.parameters) \cup Range(bsv.keys) |->
          IF V \in Range(bsv.keys) THEN << >> ELSE << 0 >>]

InitialC(f) ==
    LET bsv == _compute_blocks_setting_vars(f)
    IN [V \in Range(f.parameters) \cup Range(bsv.keys) |->
          IF V \in Range(bsv.keys) THEN 0 ELSE 1]

\* ssa.Var(f"{V.name}!{i}")
subscript_var(V, i) == [V EXCEPT !.sub = i]

\* What S[V][-1] raises, if anything.
TopError(St, V) ==
    IF V \notin DOMAIN St THEN "KeyError"
    ELSE IF St[V] = << >> THEN "IndexError"
    ELSE None

\* The rhs of an assignment with its reads renamed (lines 168-185); the
\* operands of an Index are left as they are.  [err, rhs]
RenameRHS(St, rhs) ==
    CASE rhs.kind = "Index"       -> [err |-> None, rhs |-> rhs]
      [] rhs.kind = "ConstantInt" -> [err |-> None, rhs |-> rhs]
      [] rhs.kind \in {"Var", "UnaryOp"} ->
            LET V == rhs.args[1]
            IN IF TopError(St, V) # None
               THEN [err |-> TopError(St, V), rhs |-> rhs]
               ELSE [err |-> None,
                     rhs |-> [rhs EXCEPT !.args[1] = subscript_var(V, Last(St[V]))]]
      [] rhs.kind = "BinOp" ->
            LET L == rhs.args[1]
                R == rhs.args[2]
            IN IF TopError(St, L) # None
               THEN [err |-> TopError(St, L), rhs |-> rhs]
               ELSE LET r1 == [rhs EXCEPT !.args[1] = subscript_var(L, Last(St[L]))]
                    IN IF TopError(St, R) # None
                       THEN [err |-> TopError(St, R), rhs |-> r1]
                       ELSE [err |-> None,
                             rhs |-> [r1 EXCEPT !.args[2] =
                                         subscript_var(R, Last(St[R]))]]

\* old_lhs holds no entry for an Index lhs.
NoEntry == [kind |-> "NoEntry", name |-> "", sub |-> NoSub, index |-> ""]

\* The new lhs of a Phi or an Assign (lines 201-207): an Index is left as is.
RenameLHS(V, i) == IF V.kind = "Index" THEN V ELSE subscript_var(V, i)

\* Mutant of Define: the counter C[V] is not advanced (line 210 left out).
Define_NoIncrement(st, X, which, k) ==
    LET A == IF which = "phi" THEN st.phi[X][k] ELSE st.asg[X][k]
        V == A.lhs
        i == st.C[V]
        A2 == [A EXCEPT !.lhs = RenameLHS(V, i)]
        old == IF V.kind = "Index" THEN NoEntry ELSE V
    IN [st EXCEPT
          !.phi = IF which = "phi" THEN [@ EXCEPT ![X][k] = A2] ELSE @,
          !.asg = IF which = "asg" THEN [@ EXCEPT ![X][k] = A2] ELSE @,
          !.old = IF which = "phi" THEN [@ EXCEPT !.phi = Append(@, old)]
                  ELSE [@ EXCEPT !.asg = Append(@, old)],
          !.S = [@ EXCEPT ![V] = Append(@, i)]]

\* Lines 197-210 for the Phi or Assign A of block X at position k of list
\* `which` ("phi" or "asg"): st is the state of the activation so far.
Define(st, X, which, k) ==
    LET A == IF which = "phi" THEN st.phi[X][k] ELSE st.asg[X][k]
        V == A.lhs
        i == st.C[V]
        A2 == [A EXCEPT !.lhs = RenameLHS(V, i)]
        old == IF V.kind = "Index" THEN NoEntry ELSE V
    IN [st EXCEPT
          !.phi = IF which = "phi" THEN [@ EXCEPT ![X][k] = A2] ELSE @,
          !.asg = IF which = "asg" THEN [@ EXCEPT ![X][k] = A2] ELSE @,
          !.old = IF which = "phi" THEN [@ EXCEPT !.phi = Append(@, old)]
                  ELSE [@ EXCEPT !.asg = Append(@, old)],
          !.S = [@ EXCEPT ![V] = Append(@, i)],
          !.C = [@ EXCEPT ![V] = i + 1]]

RECURSIVE RenamePhis(_, _, _)
RenamePhis(st, X, k) ==
    IF k > Len(st.phi[X]) THEN st
    ELSE RenamePhis(Define(st, X, "phi", k), X, k + 1)

RECURSIVE RenameAssigns(_, _, _)
RenameAssigns(st, X, k) ==
    IF k > Len(st.asg[X]) \/ st.err # None THEN st
    ELSE LET r == RenameRHS(st.S, st.asg[X][k].rhs)
             st1 == [st EXCEPT !.asg[X][k].rhs = r.rhs, !.err = r.err]
         IN IF r.err # None THEN st1
            ELSE RenameAssigns(Define(st1, X, "asg", k), X, k + 1)

\* Lines 186-191: the read of a ConditionalJump or of a Return.
RenameTerminator(st, X) ==
    LET T == st.term[X]
        V == T.var
    IN IF st.err # None \/ T.kind = "Jump" THEN st
       ELSE IF TopError(st.S, V) # None
       THEN [st EXCEPT !.err = TopError(st.S, V)]
       ELSE [st EXCEPT !.term[X].var = subscript_var(V, Last(st.S[V]))]


\* The position of X in the enumeration of Y's predecessors (lines 214-218).
PredIndex(f, X, Y) ==
    CHOOSE j \in DOMAIN predecessors(f, Y) : predecessors(f, Y)[j] = X

\* Lines 219-227 for the Phi-functions of successor Y from position k on.
RECURSIVE RenameOperands(_, _, _, _)
RenameOperands(st, X, Y, k) ==
    IF k > Len(st.phi[Y]) \/ st.err # None THEN st
    ELSE LET j == PredIndex(fn, X, Y)
             V == st.phi[Y][k].rhs[j]
         IN IF TopError(st.S, V) # None
            THEN [st EXCEPT !.err = TopError(st.S, V)]
            ELSE RenameOperands(
                   [st EXCEPT !.phi[Y][k].rhs[j] =
                       IF V.kind = "Index" THEN V
                       ELSE subscript_var(V, Last(st.S[V]))],
                   X, Y, k + 1)

\* Lines 212-227: the successors of X from position n of the enumeration on.
RECURSIVE RenameSuccessors(_, _, _)
RenameSuccessors(st, X, n) ==
    IF n > Len(successors(fn, X)) \/ st.err # None THEN st
    ELSE RenameSuccessors(RenameOperands(st, X, successors(fn, X)[n], 1), X, n + 1)

\* search(X) up to the loop over the children (lines 155-227).
SearchBlock(X) ==
    LET st0 == [ S |-> S, C |-> C, phi |-> phi_functions, asg |-> assignments,
                 term |-> terminator, old |-> [phi |-> << >>, asg |-> << >>],
                 err |-> None ]
        st1 == RenamePhis(st0, X, 1)
        st2 == RenameAssigns(st1, X, 1)
        st3 == RenameTerminator(st2, X)
    IN RenameSuccessors(st3, X, 1)

\* Lines 232-234: S after the pops of search(X), or the error of old_lhs[A].
\* pops: the old lhs of X's assignments, in order.
RECURSIVE PopAll(_, _)
PopAll(St, pops) ==
    IF pops = << >> THEN [err |-> None, S |-> St]
    ELSE IF Head(pops) = NoEntry THEN [err |-> "KeyError", S |-> St]
    ELSE PopAll([St EXCEPT ![Head(pops)] = Front(@)], Tail(pops))

Unwound(frame) == PopAll(S, frame.old.asg)

(***************************************************************************)
(* tac_cfg_to_ssa as a state machine.  A run on the input fn goes           *)
(*   start -> place -> rename -> returned | failed;                        *)
(* golden is the file ssa.txt of the test case of this input: the result   *)
(* regenerate_stages stored, NoOutcome while there is no such file.        *)
(***************************************************************************)
NoOutcome == [status |-> "none", phi |-> << >>, asg |-> << >>, term |-> << >>]

Fresh ==
    /\ pc = "start"
    /\ phi_functions = << >>
    /\ assignments = << >>
    /\ terminator = << >>
    /\ dominance_frontiers = << >>
    /\ dominance_tree = << >>
    /\ iter_count = 0
    /\ has_already = << >>
    /\ work = << >>
    /\ W = {}
    /\ S = << >>
    /\ C = << >>
    /\ frames = << >>

IdleVT == vt_args = << >> /\ vt_flags = << >> /\ vt_out = << >>
IdleFD == fd_args = << >> /\ fd_out = << >>
IdleMD ==
    /\ md_node = << >>
    /\ md_pc = "idle"
    /\ md_i = 0
    /\ main_function = << >>
    /\ var_values = << >>
    /\ md_out = << >>
IdleBio ==
    /\ bio_args = << >>
    /\ bio_pc = "idle"
    /\ bio_i = 0
    /\ bio_j = 0
    /\ bio_sum = 0
    /\ min_sum = 0
    /\ min_index = 0
IdleFor == for_node = << >> /\ for_out = << >>

InitSSA ==
    /\ IsInput(fn)
    /\ Fresh
    /\ golden = NoOutcome
    /\ IdleVT
    /\ IdleFD
    /\ IdleMD
    /\ IdleBio
    /\ IdleFor

\* Lines 99-114: the struct copy, the dominance analyses, the empty stamps.
Struct ==
    /\ pc = "start"
    /\ pc' = "place"
    /\ phi_functions' = [b \in Blocks(fn) |-> << >>]
    /\ assignments' = fn.assignments
    /\ terminator' = fn.terminator
    /\ dominance_frontiers' = networkx_dominance_frontiers(fn)
    /\ dominance_tree' = _compute_dominance_tree(fn)
    /\ iter_count' = 0
    /\ has_already' = [b \in Blocks(fn) |-> 0]
    /\ work' = [b \in Blocks(fn) |-> 0]
    /\ W' = {}
    /\ UNCHANGED << fn, S, C, frames, golden, vt_vars, fd_vars, md_vars, bio_vars,
                    for_vars >>

\* Lines 116-121: the next key V of blocks_setting_vars.
NextVar ==
    /\ pc = "place"
    /\ W = {}
    /\ iter_count < Len(_compute_blocks_setting_vars(fn).keys)
    /\ LET bsv == _compute_blocks_setting_vars(fn)
           V == bsv.keys[iter_count + 1]
       IN /\ iter_count' = iter_count + 1
          /\ work' = [b \in Blocks(fn) |->
                        IF b \in bsv.blocks[V] THEN iter_count + 1 ELSE work[b]]
          /\ W' = bsv.blocks[V]
    /\ UNCHANGED << fn, pc, phi_functions, assignments, terminator,
                    dominance_frontiers, dominance_tree, has_already, S, C,
                    frames, golden, vt_vars, fd_vars, md_vars, bio_vars,
                    for_vars >>

\* Lines 123-133: one turn of the while loop; W.pop() returns any element.
PlacePhi ==
    /\ pc = "place"
    /\ W # {}
    /\ \E X \in W :
         LET V == _compute_blocks_setting_vars(fn).keys[iter_count]
             Ys == NeedPhi(X)
         IN /\ phi_functions' =
                  [Y \in Blocks(fn) |->
                     IF Y \in Ys
                     THEN Append(phi_functions[Y],
                                 NewPhi(V, Len(predecessors(fn, Y))))
                     ELSE phi_functions[Y]]
            /\ has_already' = [Y \in Blocks(fn) |->
                                 IF Y \in Ys THEN iter_count ELSE has_already[Y]]
            /\ work' = [Y \in Blocks(fn) |->
                          IF Y \in NeedWork(Ys) THEN iter_count ELSE work[Y]]
            /\ W' = (W \ {X}) \cup NeedWork(Ys)
    /\ UNCHANGED << fn, pc, assignments, terminator, dominance_frontiers,
                    dominance_tree, iter_count, S, C, frames, golden,
                    vt_vars, fd_vars, md_vars, bio_vars,
                    for_vars >>

\* Lines 137-146: the stacks and counters before search(entry_block).
RenameInit ==
    /\ pc = "place"
    /\ W = {}
    /\ iter_count = Len(_compute_blocks_setting_vars(fn).keys)
    /\ pc' = "rename"
    /\ S' = InitialS(fn)
    /\ C' = InitialC(fn)
    /\ frames' = << >>
    /\ UNCHANGED << fn, phi_functions, assignments, terminator,
                    dominance_frontiers, dominance_tree, iter_count,
                    has_already, work, W, golden, vt_vars, fd_vars, md_vars, bio_vars,
                    for_vars >>

\* A call search(X): lines 155-227, then the activation waits for its
\* children.  An exception ends tac_cfg_to_ssa.  An activation is [X, todo,
\* old, S_entry]: the block, the children still to search, old_lhs, and the
\* stacks as they were when the activation began.
Call(X, callers) ==
    LET st == SearchBlock(X)
    IN /\ S' = st.S
       /\ C' = st.C
       /\ phi_functions' = st.phi
       /\ assignments' = st.asg
       /\ terminator' = st.term
       /\ IF st.err # None
          THEN /\ pc' = "failed"
               /\ frames' = callers
          ELSE /\ pc' = "searching"
               /\ frames' = Append(callers,
                      [X |-> X, todo |-> dominance_tree[X], old |-> st.old,
                       S_entry |-> S])

\* Line 236 and line 230: search(entry_block), or search(Y) for the next child
\* Y of the innermost activation, in the order the set gives them.
Search ==
    /\ \/ /\ pc = "rename"
          /\ Call(fn.entry_block, << >>)
       \/ /\ pc = "searching"
          /\ frames # << >>
          /\ \E Y \in Last(frames).todo :
               Call(Y, [frames EXCEPT ![Len(frames)].todo = @ \ {Y}])
    /\ UNCHANGED << fn, dominance_frontiers, dominance_tree, iter_count,
                    has_already, work, W, golden, vt_vars, fd_vars, md_vars, bio_vars,
                    for_vars >>

\* Lines 232-234 and the return of search(X); the return of
\* search(entry_block) ends tac_cfg_to_ssa (line 238).
Unwind ==
    /\ pc = "searching"
    /\ frames # << >>
    /\ Last(frames).todo = {}
    /\ LET r == Unwound(Last(frames))
       IN /\ S' = r.S
          /\ frames' = Front(frames)
          /\ pc' = IF r.err # None THEN "failed"
                   ELSE IF Len(frames) = 1 THEN "returned"
                   ELSE "searching"
    /\ UNCHANGED << fn, phi_functions, assignments, terminator,
                    dominance_frontiers, dominance_tree, iter_count,
                    has_already, work, W, C, golden, vt_vars, fd_vars, md_vars, bio_vars,
                    for_vars >>

\* What a run produced: the printed function, or the failure.
Outcome ==
    IF pc = "failed" THEN [status |-> "failed", phi |-> << >>, asg |-> << >>,
                           term |-> << >>]
    ELSE [status |-> "returned", phi |-> phi_functions, asg |-> assignments,
          term |-> terminator]

\* What is left of a finished run when the stages are run on the source
\* again.
Again ==
    /\ pc' = "start"
    /\ phi_functions' = << >>
    /\ assignments' = << >>
    /\ terminator' = << >>
    /\ dominance_frontiers' = << >>
    /\ dominance_tree' = << >>
    /\ iter_count' = 0
    /\ has_already' = << >>
    /\ work' = << >>
    /\ W' = {}
    /\ S' = << >>
    /\ C' = << >>
    /\ frames' = << >>
    /\ UNCHANGED << fn, vt_vars, fd_vars, md_vars, bio_vars,
                    for_vars >>

\* StagesTestCase.test_stages, from the call of the pass on (test_stages.py
\* lines 50-51): the printed result is compared with ssa.txt, or the
\* exception of the pass ends the test; ssa.txt is only read.
test_stages ==
    /\ pc \in {"returned", "failed"}
    /\ UNCHANGED golden
    /\ Again

\* regenerate_stages, from the call of the pass on (lines 188-190): the
\* printed result is written to ssa.txt, over what was there; the exception
\* of the pass ends the function before anything is written.
regenerate_stages ==
    /\ pc \in {"returned", "failed"}
    /\ golden' = IF pc = "returned" THEN Outcome ELSE golden
    /\ Again

NextSSA ==
    \/ Struct \/ NextVar \/ PlacePhi \/ RenameInit \/ Search \/ Unwind
    \/ test_stages \/ regenerate_stages

SpecSSA == InitSSA /\ [][NextSSA]_vars

\* The stage is sequential code: the placement loops take their next turn
\* whenever they can.
SpecSSAFair ==
    /\ SpecSSA
    /\ WF_vars(NextVar)
    /\ WF_vars(PlacePhi)
    /\ WF_vars(RenameInit)


(***************************************************************************)
(* The definitions and the uses of the function held in phi_functions,     *)
(* assignments and terminator.                                             *)
(***************************************************************************)
\* A definition site: << block, "phi" or "asg", position >>.
Sites ==
    UNION { { << b, "phi", k >> : k \in DOMAIN phi_functions[b] }
              \cup { << b, "asg", k >> : k \in DOMAIN assignments[b] } :
            b \in DOMAIN assignments }

LhsAt(d) ==
    IF d[2] = "phi" THEN phi_functions[d[1]][d[3]].lhs
    ELSE assignments[d[1]][d[3]].lhs

\* A read: [var, block, pos, kind]; pos is the position of the reading
\* assignment in its block, 0 for a read at the end of the block (the
\* terminator, and a Phi operand, read at the end of the predecessor it comes
\* from); kind is the kind of the rhs, "Terminator" or "Phi".
AssignReads ==
    UNION { UNION { { [ var |-> assignments[b][k].rhs.args[a], block |-> b,
                        pos |-> k, kind |-> assignments[b][k].rhs.kind ] :
                      a \in DOMAIN assignments[b][k].rhs.args } :
                    k \in DOMAIN assignments[b] } :
            b \in DOMAIN assignments }

TerminatorReads ==
    { [ var |-> terminator[b].var, block |-> b, pos |-> 0,
        kind |-> "Terminator" ] :
      b \in { c \in DOMAIN terminator : terminator[c].kind # "Jump" } }

PhiReads ==
    UNION { UNION { { [ var |-> phi_functions[Y][k].rhs[j],
                        block |-> predecessors(fn, Y)[j], pos |-> 0,
                        kind |-> "Phi" ] :
                      j \in DOMAIN phi_functions[Y][k].rhs } :
                    k \in DOMAIN phi_functions[Y] } :
            Y \in DOMAIN phi_functions }

Reads == AssignReads \cup TerminatorReads \cup PhiReads

\* The reads that carry a rename subscript.
Uses == { u \in Reads : u.var.sub # NoSub }

\* Definition site d comes before read u of the same block.
Precedes(d, u) == d[2] = "phi" \/ u.pos = 0 \/ d[3] < u.pos

\* Version 0 of a parameter that the body does not define is defined on
\* entry to the function.
IsParameterVersion(v) ==
    /\ v.sub = 0
    /\ [v EXCEPT !.sub = NoSub] \in Range(fn.parameters)
    /\ \A d \in Sites : LhsAt(d) # v

\* Read u has exactly one definition, and it dominates the read.
Dominated(u) ==
    LET defs == { d \in Sites : LhsAt(d) = u.var }
    IN \/ IsParameterVersion(u.var)
       \/ /\ Cardinality(defs) = 1
          /\ \A d \in defs :
               /\ d[1] \in Dominators(fn)[u.block]
               /\ d[1] = u.block => Precedes(d, u)

(***************************************************************************)
(* Claims about tac_cfg_to_ssa                                             *)
(***************************************************************************)

\* C1: SSA uniqueness: in the function tac_cfg_to_ssa returns, no two
\* definitions (Phi-functions or assignments, of any blocks) have the same lhs.
C1_SSAUniqueness ==
    pc = "returned" =>
        \A d1 \in Sites : \A d2 \in Sites :
            d1 # d2 => LhsAt(d1) # LhsAt(d2)

\* Reached: a returned function that defines one source variable twice.
C1_Witness ==
    /\ pc = "returned"
    /\ \E d1 \in Sites : \E d2 \in Sites :
         /\ d1 # d2
         /\ LhsAt(d1).name = LhsAt(d2).name
         /\ LhsAt(d1).sub # LhsAt(d2).sub

\* C2: Phi-arity: in the function tac_cfg_to_ssa returns, the rhs of every
\* Phi-function is as long as the number of predecessors of its block.
C2_PhiArity ==
    pc = "returned" =>
        \A b \in DOMAIN phi_functions : \A k \in DOMAIN phi_functions[b] :
            Len(phi_functions[b][k].rhs) = Len(predecessors(fn, b))

\* Reached: a returned function with a Phi-function in a block that has
\* three predecessors.
C2_Witness ==
    /\ pc = "returned"
    /\ \E b \in DOMAIN phi_functions :
         /\ phi_functions[b] # << >>
         /\ Len(predecessors(fn, b)) = 3

\* C3 (as claimed): dominance of uses: in the function tac_cfg_to_ssa returns,
\* every renamed use V!i has a single definition, whose block dominates the
\* block of the use.
C3_DominanceOfUses ==
    pc = "returned" => \A u \in Uses : Dominated(u)

\* C4 (as claimed): determinism: two runs of tac_cfg_to_ssa on the same input
\* that both return give the same function, whatever the set orders were: the
\* result of a run is the result stored for its input, if one is stored.
C4_Determinism ==
    (pc = "returned" /\ golden.status = "returned") => Outcome = golden

\* C5 (as claimed): when renaming starts every parameter V has S[V] = [0] and
\* C[V] = 1, and no definition of the body is renamed to V!0.
C5_ParametersSeeded ==
    /\ pc = "rename" =>
         \A V \in Range(fn.parameters) : S[V] = << 0 >> /\ C[V] = 1
    /\ pc \in {"searching", "returned"} =>
         \A V \in Range(fn.parameters) : \A d \in Sites :
             LhsAt(d) # subscript_var(V, 0)

\* C6 (as claimed): a read with an empty stack makes tac_cfg_to_ssa fail,
\* and the failure is the same on every run for the same input: no run fails
\* on an input for which a run returned a result, which is stored.
C6_FailureIsDeterministic ==
    golden.status = "returned" => pc # "failed"


\* The dominance frontier of X by its definition: the blocks Y such that X
\* dominates a predecessor of Y and does not strictly dominate Y.
DominanceFrontier(f, X) ==
    { Y \in Blocks(f) :
        /\ \E P \in Range(predecessors(f, Y)) : X \in Dominators(f)[P]
        /\ ~(X # Y /\ X \in Dominators(f)[Y]) }

\* The iterated dominance frontier of the set of blocks B: the least set T
\* that holds the dominance frontier of every block of B and of T.
RECURSIVE IteratedFrontier(_, _, _)
IteratedFrontier(f, B, T) ==
    LET T2 == UNION { DominanceFrontier(f, X) : X \in B \cup T }
    IN IF T2 = T THEN T ELSE IteratedFrontier(f, B, T2)

\* The positions of the Phi-functions for V in block Y.
PhisFor(V, Y) == { k \in DOMAIN phi_functions[Y] : phi_functions[Y][k].lhs = V }

\* C17: Phi placement: when the placement loop is over, block Y holds a
\* Phi-function for the assigned variable V exactly if Y is in the iterated
\* dominance frontier of the blocks that assign V, and it holds one only.
C17_PhiPlacement ==
    pc = "rename" =>
        LET bsv == _compute_blocks_setting_vars(fn)
        IN \A V \in Range(bsv.keys) : \A Y \in Blocks(fn) :
              Cardinality(PhisFor(V, Y)) =
                 IF Y \in IteratedFrontier(fn, bsv.blocks[V], {}) THEN 1 ELSE 0

\* Reached: the placement loop is over and a block holds a Phi-function for
\* a variable although it is in the dominance frontier of no block that
\* assigns it: the Phi-function of another block put it there.
C17_Witness ==
    /\ pc = "rename"
    /\ LET bsv == _compute_blocks_setting_vars(fn)
       IN \E V \in Range(bsv.keys) : \E Y \in Blocks(fn) :
             /\ PhisFor(V, Y) # {}
             /\ \A X \in bsv.blocks[V] : Y \notin DominanceFrontier(fn, X)

\* C18 (as claimed): unwind: when search(X) returns, every stack S[V] is what
\* it was when search(X) was entered.
C18_UnwindRestoresStacks ==
    [][(/\ pc = "searching"
        /\ frames # << >>
        /\ Last(frames).todo = {}
        /\ pc' \in {"searching", "returned"})
          => S' = Last(frames).S_entry]_vars

\* C19 (as claimed): in the function tac_cfg_to_ssa returns, every variable
\* read in an assignment rhs of any kind, in a ConditionalJump condition and
\* in a Return value carries a subscript.
C19_ReadsRenamed ==
    pc = "returned" =>
        \A u \in AssignReads \cup TerminatorReads : u.var.sub # NoSub

\* The definitions of the variable called name in block b of the result.
DefsIn(name, b) ==
    { d \in Sites : d[1] = b /\ LhsAt(d).kind = "Var" /\ LhsAt(d).name = name }

\* The last of them: the last assignment, or else the Phi-function.
LastDefIn(name, b) ==
    LET asg == { d \in DefsIn(name, b) : d[2] = "asg" }
    IN IF asg # {} THEN CHOOSE d \in asg : \A e \in asg : e[3] <= d[3]
       ELSE CHOOSE d \in DefsIn(name, b) : TRUE

\* The version of the variable called name that reaches the end of block b:
\* the last definition in b, or else what reaches the end of the immediate
\* dominator of b; on entry, version 0 of a parameter.
RECURSIVE ReachingVersion(_, _)
ReachingVersion(name, b) ==
    IF DefsIn(name, b) # {} THEN LhsAt(LastDefIn(name, b))
    ELSE IF b # fn.entry_block
    THEN ReachingVersion(name, immediate_dominators(fn)[b])
    ELSE IF Var(name) \in Range(fn.parameters) THEN subscript_var(Var(name), 0)
    ELSE NoEntry

\* C20 (as claimed): in the function tac_cfg_to_ssa returns, operand j of
\* every Phi-function is the version of its variable that reaches the end of
\* predecessor j of the block of the Phi-function.
C20_PhiOperands ==
    pc = "returned" =>
        \A Y \in DOMAIN phi_functions : \A k \in DOMAIN phi_functions[Y] :
            \A j \in DOMAIN phi_functions[Y][k].rhs :
                phi_functions[Y][k].rhs[j] =
                    ReachingVersion(phi_functions[Y][k].rhs[j].name,
                                    predecessors(fn, Y)[j])


\* The function the caller passed, as the caller finds it.  Lines 69-73 give
\* each ssa.Block the assignments list and the terminator of its tac_cfg.Block,
\* not copies, and search assigns to their fields (lines 167-203): from the
\* struct conversion on, the caller's blocks hold what the ssa blocks hold.
tac_cfg_function ==
    IF pc = "start" THEN fn
    ELSE [fn EXCEPT !.assignments = assignments, !.terminator = terminator]

\* C21 (as claimed): tac_cfg_to_ssa is pure: after it returns, every
\* assignment and every terminator of the function that was passed to it is
\* what it was before the call.
C21_InputUnchanged ==
    pc = "returned" => tac_cfg_function = fn


\* C22: Phi placement terminates.  Every block on W carries the work stamp of
\* the current variable; a turn of the while loop takes a block off W and
\* puts on W only blocks that were never on it for this variable; W is empty
\* when the next variable starts; a block holds at most one Phi-function for
\* the current variable; and the placement loop always comes to its end.
C22_PlacementTerminates ==
    /\ [](pc = "place" => \A Y \in W : work[Y] = iter_count)
    /\ [](pc = "place" /\ iter_count > 0 =>
            \A Y \in Blocks(fn) :
               Cardinality(PhisFor(_compute_blocks_setting_vars(fn).keys[iter_count],
                                   Y)) <= 1)
    /\ [][(pc = "place" /\ W # {}) =>
             /\ \E X \in W : X \notin W'
             /\ \A Y \in W' \ W : work[Y] < iter_count /\ work'[Y] = iter_count]_vars
    /\ [][iter_count' = iter_count + 1 => W = {}]_vars
    /\ (pc = "place") ~> (pc = "rename" /\ W = {})

\* Reached: the loop for a variable is over and a block that assigns the
\* variable holds a Phi-function for it: it was in the dominance frontier of
\* a block taken off W while it carried the work stamp already.
C22_Witness ==
    /\ pc = "place"
    /\ W = {}
    /\ iter_count > 0
    /\ LET bsv == _compute_blocks_setting_vars(fn)
           V == bsv.keys[iter_count]
       IN \E Y \in bsv.blocks[V] : PhisFor(V, Y) # {}


\* The names a statement of the input reads and the name it assigns; a store
\* a[i] = v reads a, i and v.
ReadNames(A) ==
    { A.rhs.args[i].name : i \in DOMAIN A.rhs.args }
       \cup (IF A.lhs.kind = "Index" THEN {A.lhs.name, A.lhs.index} ELSE {})
AssignedNames(A) == IF A.lhs.kind = "Var" THEN {A.lhs.name} ELSE {}

AllNames(f) ==
    { f.parameters[i].name : i \in DOMAIN f.parameters }
       \cup UNION { UNION { AssignedNames(f.assignments[b][k]) :
                               k \in DOMAIN f.assignments[b] } :
                       b \in Blocks(f) }

\* The names assigned on every path from the entry block to the start of b,
\* given the names Out[P] assigned on every path to the end of each P.
AssignedBefore(f, Out, b) ==
    IF b = f.entry_block
    THEN { f.parameters[i].name : i \in DOMAIN f.parameters }
    ELSE { n \in AllNames(f) : \A P \in Range(predecessors(f, b)) : n \in Out[P] }

\* The greatest solution: the names assigned on every path to the end of
\* each block.
RECURSIVE AssignedAfter(_, _)
AssignedAfter(f, Out) ==
    LET Out2 == [b \in Blocks(f) |->
                   AssignedBefore(f, Out, b)
                      \cup UNION { AssignedNames(f.assignments[b][k]) :
                                     k \in DOMAIN f.assignments[b] }]
    IN IF Out2 = Out THEN Out ELSE AssignedAfter(f, Out2)

\* Every read of a variable in f is preceded by an assignment to it on every
\* path from the entry block, or the variable is a parameter.
ReadsAreAssigned(f) ==
    LET Out == AssignedAfter(f, [b \in Blocks(f) |-> AllNames(f)])
    IN \A b \in Blocks(f) :
          /\ \A k \in DOMAIN f.assignments[b] :
                ReadNames(f.assignments[b][k]) \subseteq
                   AssignedBefore(f, Out, b)
                      \cup UNION { AssignedNames(f.assignments[b][i]) :
                                     i \in 1..(k - 1) }
          /\ f.terminator[b].kind \in {"ConditionalJump", "Return"}
                => f.terminator[b].var.name \in Out[b]

\* C24 (as claimed): tac_cfg_to_ssa returns for every function in which each
\* read of a variable is preceded by an assignment to it on every path from
\* the entry block; a loop whose body assigns a variable that is not assigned
\* before the loop is such a function.
C24_AssignedReadsReturn ==
    ReadsAreAssigned(fn) => pc # "failed"


(***************************************************************************)
(* VarType (ast_shared.py).  An Optional[int] is the empty list (None) or  *)
(* the list of the one integer; an unknown visibility or datatype is None. *)
(***************************************************************************)
MaxTypes == 2       \* arguments of one call of merge

NoInt == << >>
SomeInt(n) == << n >>

Visibilities == {"PLAINTEXT", "SHARED"}
DataTypes == {"INT", "BOOL"}
DimsValues == {0, 1}     \* scalars and one-dimensional lists

VarType(visibility, dims, datatype) ==
    [visibility |-> visibility, dims |-> dims, datatype |-> datatype]

VarTypes ==
    { VarType(v, d, t) : v \in Visibilities \cup {None},
                         d \in {NoInt} \cup { SomeInt(n) : n \in DimsValues },
                         t \in DataTypes \cup {None} }

Known(x) == x # None
KnownDims(t) == t.dims # NoInt

\* VarType.drop_dim: one dimension less, unknown dims stay unknown.
drop_dim(self) ==
    IF self.dims = NoInt THEN VarType(self.visibility, NoInt, self.datatype)
    ELSE VarType(self.visibility, SomeInt(self.dims[1] - 1), self.datatype)

\* VarType.add_dim: one dimension more, unknown dims stay unknown.
add_dim(self) ==
    IF self.dims = NoInt THEN VarType(self.visibility, NoInt, self.datatype)
    ELSE VarType(self.visibility, SomeInt(self.dims[1] + 1), self.datatype)

\* Mutant of could_become: an unknown field of supertype fits as well.
could_become_EitherUnknown(self, supertype) ==
    /\ self.visibility \in {supertype.visibility, None} \/ supertype.visibility = None
    /\ self.datatype \in {supertype.datatype, None} \/ supertype.datatype = None
    /\ self.dims \in {supertype.dims, NoInt} \/ supertype.dims = NoInt

\* VarType.could_become: each field of self is in [field of supertype, None].
could_become(self, supertype) ==
    /\ self.visibility \in {supertype.visibility, None}
    /\ self.datatype \in {supertype.datatype, None}
    /\ self.dims \in {supertype.dims, NoInt}

is_complete(self) ==
    self.visibility # None /\ self.datatype # None /\ self.dims # NoInt

\* Mutant of MergeVisibility: any and all exchanged.
MergeVisibility_AnyAllSwapped(types, mixed_shared_plaintext_allowed) ==
    LET elem_visibilities == [i \in DOMAIN types |-> types[i].visibility]
    IN IF /\ Cardinality({ v \in Range(elem_visibilities) : v # None }) > 1
          /\ ~mixed_shared_plaintext_allowed
       THEN [raised |-> "TypeError", value |-> None]
       ELSE IF \A i \in DOMAIN types : elem_visibilities[i] = "SHARED"
       THEN [raised |-> None, value |-> "SHARED"]
       ELSE IF \E i \in DOMAIN types : elem_visibilities[i] = "PLAINTEXT"
       THEN [raised |-> None, value |-> "PLAINTEXT"]
       ELSE [raised |-> None, value |-> None]

\* Lines 95-107 of merge: the visibility, or the TypeError.
MergeVisibility(types, mixed_shared_plaintext_allowed) ==
    LET elem_visibilities == [i \in DOMAIN types |-> types[i].visibility]
    IN IF /\ Cardinality({ v \in Range(elem_visibilities) : v # None }) > 1
          /\ ~mixed_shared_plaintext_allowed
       THEN [raised |-> "TypeError", value |-> None]
       ELSE IF \E i \in DOMAIN types : elem_visibilities[i] = "SHARED"
       THEN [raised |-> None, value |-> "SHARED"]
       ELSE IF \A i \in DOMAIN types : elem_visibilities[i] = "PLAINTEXT"
       THEN [raised |-> None, value |-> "PLAINTEXT"]
       ELSE [raised |-> None, value |-> None]

\* Mutant of MergeDims: the check of line 110 left out.
MergeDims_NoCheck(types) ==
    LET elem_dims == SelectSeq([i \in DOMAIN types |-> types[i].dims],
                               LAMBDA d : d # NoInt)
    IN IF Len(elem_dims) > 0
       THEN [raised |-> None, value |-> elem_dims[1]]
       ELSE [raised |-> None, value |-> NoInt]

\* Lines 109-117 of merge: the dims, or the TypeError.
MergeDims(types) ==
    LET elem_dims == SelectSeq([i \in DOMAIN types |-> types[i].dims],
                               LAMBDA d : d # NoInt)
    IN IF Cardinality(Range(elem_dims)) > 1
       THEN [raised |-> "TypeError", value |-> NoInt]
       ELSE IF Len(elem_dims) > 0
       THEN [raised |-> None, value |-> elem_dims[1]]
       ELSE [raised |-> None, value |-> NoInt]

\* Lines 119-127 of merge: the datatype, or the TypeError.
MergeDatatype(types, mixed_datatypes_allowed) ==
    LET elem_datatypes == SelectSeq([i \in DOMAIN types |-> types[i].datatype],
                                    LAMBDA t : t # None)
    IN IF Cardinality(Range(elem_datatypes)) > 1 /\ ~mixed_datatypes_allowed
       THEN [raised |-> "TypeError", value |-> None]
       ELSE IF Len(elem_datatypes) > 0
       THEN [raised |-> None, value |-> elem_datatypes[1]]
       ELSE [raised |-> None, value |-> None]

NoType == VarType(None, NoInt, None)

\* VarType.merge(*types, mixed_shared_plaintext_allowed,
\* mixed_datatypes_allowed): the checks in the order of the code.
merge(types, mixed_shared_plaintext_allowed, mixed_datatypes_allowed) ==
    LET v == MergeVisibility(types, mixed_shared_plaintext_allowed)
        d == MergeDims(types)
        t == MergeDatatype(types, mixed_datatypes_allowed)
    IN IF v.raised # None THEN [raised |-> v.raised, type |-> NoType]
       ELSE IF d.raised # None THEN [raised |-> d.raised, type |-> NoType]
       ELSE IF t.raised # None THEN [raised |-> t.raised, type |-> NoType]
       ELSE [raised |-> None, type |-> VarType(v.value, d.value, t.value)]

IdleSSA ==
    /\ fn = << >>
    /\ Fresh
    /\ golden = NoOutcome

NoResult == [op |-> "none", raised |-> None, type |-> NoType, bool |-> FALSE]

InitVT ==
    /\ \E n \in 1..MaxTypes : vt_args \in [1..n -> VarTypes]
    /\ vt_flags \in [ mixed_shared_plaintext_allowed : BOOLEAN,
                      mixed_datatypes_allowed : BOOLEAN ]
    /\ vt_out = NoResult
    /\ IdleSSA
    /\ IdleFD
    /\ IdleMD
    /\ IdleBio
    /\ IdleFor

\* VarType.merge(*vt_args, **vt_flags)
Merge ==
    /\ vt_out = NoResult
    /\ LET r == merge(vt_args, vt_flags.mixed_shared_plaintext_allowed,
                      vt_flags.mixed_datatypes_allowed)
       IN vt_out' = [op |-> "merge", raised |-> r.raised, type |-> r.type,
                     bool |-> FALSE]
    /\ UNCHANGED << vt_args, vt_flags, ssa_vars, fd_vars, md_vars, bio_vars,
                    for_vars >>

\* vt_args[1].could_become(vt_args[2])
CouldBecome ==
    /\ vt_out = NoResult
    /\ Len(vt_args) = 2
    /\ vt_out' = [op |-> "could_become", raised |-> None, type |-> NoType,
                  bool |-> could_become(vt_args[1], vt_args[2])]
    /\ UNCHANGED << vt_args, vt_flags, ssa_vars, fd_vars, md_vars, bio_vars,
                    for_vars >>

\* vt_args[1].drop_dim()
DropDim ==
    /\ vt_out = NoResult
    /\ Len(vt_args) = 1
    /\ vt_out' = [op |-> "drop_dim", raised |-> None,
                  type |-> drop_dim(vt_args[1]), bool |-> FALSE]
    /\ UNCHANGED << vt_args, vt_flags, ssa_vars, fd_vars, md_vars, bio_vars,
                    for_vars >>

\* vt_args[1].add_dim()
AddDim ==
    /\ vt_out = NoResult
    /\ Len(vt_args) = 1
    /\ vt_out' = [op |-> "add_dim", raised |-> None,
                  type |-> add_dim(vt_args[1]), bool |-> FALSE]
    /\ UNCHANGED << vt_args, vt_flags, ssa_vars, fd_vars, md_vars, bio_vars,
                    for_vars >>

NextVT == Merge \/ CouldBecome \/ DropDim \/ AddDim

SpecVT == InitVT /\ [][NextVT]_vars


(***************************************************************************)
(* Claims about VarType                                                    *)
(***************************************************************************)
MergeReturned == vt_out.op = "merge" /\ vt_out.raised = None

\* C7: the visibility of the type merge returns is SHARED if any argument is
\* SHARED, PLAINTEXT if every argument is PLAINTEXT, and unknown otherwise.
C7_MergeVisibilityRule ==
    MergeReturned =>
        LET vis == [i \in DOMAIN vt_args |-> vt_args[i].visibility]
        IN /\ (\E i \in DOMAIN vis : vis[i] = "SHARED")
                => vt_out.type.visibility = "SHARED"
           /\ (\A i \in DOMAIN vis : vis[i] = "PLAINTEXT")
                => vt_out.type.visibility = "PLAINTEXT"
           /\ ((\A i \in DOMAIN vis : vis[i] # "SHARED")
                 /\ (\E i \in DOMAIN vis : vis[i] = None))
                => vt_out.type.visibility = None

\* Reached: merge returned for a PLAINTEXT and a SHARED argument.
C7_Witness ==
    /\ MergeReturned
    /\ \E i \in DOMAIN vt_args : vt_args[i].visibility = "PLAINTEXT"
    /\ \E i \in DOMAIN vt_args : vt_args[i].visibility = "SHARED"
    /\ vt_out.type.visibility = "SHARED"

\* A field of self is unknown or equals the field of supertype.
FieldFits(x, y, unknown) == x = unknown \/ x = y

\* C8 (as claimed): could_become is true exactly when every field of self is
\* unknown, equals the field of supertype, or the field of supertype is
\* unknown.
C8_CouldBecomeOrSuperUnknown ==
    vt_out.op = "could_become" =>
        LET self == vt_args[1]
            super == vt_args[2]
        IN vt_out.bool <=>
             /\ FieldFits(self.visibility, super.visibility, None)
                  \/ super.visibility = None
             /\ FieldFits(self.dims, super.dims, NoInt) \/ super.dims = NoInt
             /\ FieldFits(self.datatype, super.datatype, None)
                  \/ super.datatype = None

\* C8 (amended): could_become is true exactly when every field of self is
\* unknown or equals the field of supertype; a known field of self against
\* an unknown field of supertype makes it false.
C8_CouldBecome ==
    vt_out.op = "could_become" =>
        LET self == vt_args[1]
            super == vt_args[2]
        IN /\ vt_out.bool <=>
                /\ FieldFits(self.visibility, super.visibility, None)
                /\ FieldFits(self.dims, super.dims, NoInt)
                /\ FieldFits(self.datatype, super.datatype, None)
           /\ (\/ self.visibility # None /\ super.visibility = None
               \/ self.dims # NoInt /\ super.dims = NoInt
               \/ self.datatype # None /\ super.datatype = None)
                => ~vt_out.bool

\* Reached: could_become answered false for a self with known dims against a
\* supertype that differs from it only in having unknown dims.
C8_Witness ==
    /\ vt_out.op = "could_become"
    /\ ~vt_out.bool
    /\ vt_args[1].dims # NoInt
    /\ vt_args[2] = [vt_args[1] EXCEPT !.dims = NoInt]

\* C9: merge raises TypeError when two arguments have known dims that differ,
\* whatever the flags; the type it returns has the common known dims, and
\* unknown dims when no argument has known dims.
C9_MergeDims ==
    vt_out.op = "merge" =>
        LET known == { vt_args[i].dims : i \in DOMAIN vt_args } \ {NoInt}
        IN /\ Cardinality(known) > 1 => vt_out.raised = "TypeError"
           /\ (vt_out.raised = None /\ known # {})
                => \A d \in known : vt_out.type.dims = d
           /\ (vt_out.raised = None /\ known = {})
                => vt_out.type.dims = NoInt

\* Reached: merge raised for arguments that differ in their known dims alone,
\* with both flags allowing mixtures.
C9_Witness ==
    /\ vt_out.op = "merge"
    /\ vt_out.raised = "TypeError"
    /\ Len(vt_args) = 2
    /\ vt_args[1].dims = SomeInt(0)
    /\ vt_args[2] = [vt_args[1] EXCEPT !.dims = SomeInt(1)]
    /\ vt_flags.mixed_shared_plaintext_allowed
    /\ vt_flags.mixed_datatypes_allowed

\* C23 (as claimed): dims is never negative: the type drop_dim, add_dim or
\* merge returns for arguments whose dims are unknown or at least 0 has dims
\* unknown or at least 0, and drop_dim of (vis, 1, dt) is (vis, 0, dt).
C23_DimsNotNegative ==
    (vt_out.op \in {"drop_dim", "add_dim", "merge"} /\ vt_out.raised = None) =>
        /\ vt_out.type.dims = NoInt \/ vt_out.type.dims[1] >= 0
        /\ (vt_out.op = "drop_dim" /\ vt_args[1].dims = SomeInt(1))
              => vt_out.type = [vt_args[1] EXCEPT !.dims = SomeInt(0)]

\* C25 (as claimed): merge is independent of the order of its arguments:
\* passed in any other order, with the same flags, they give the same merged
\* type, or TypeError alike.
C25_MergeOrderIndependent ==
    vt_out.op = "merge" =>
        \A p \in Permutations(DOMAIN vt_args) :
            LET r == merge([i \in DOMAIN vt_args |-> vt_args[p[i]]],
                           vt_flags.mixed_shared_plaintext_allowed,
                           vt_flags.mixed_datatypes_allowed)
            IN r.raised = vt_out.raised /\ r.type = vt_out.type


(***************************************************************************)
(* _FunctionConverter.visit_FunctionDef (ast_to_restricted_ast.py): the    *)
(* parameters of the function.  An annotation is an ast node               *)
(* [node, id, value, slice]: node the class of the node ("None" for a       *)
(* missing annotation), id the id of a Name, value and slice the children  *)
(* of a Subscript (lists of at most one node).                             *)
(***************************************************************************)
MaxParams == 3      \* parameters of the function

ArgNames == << "C", "D", "S", "N" >>

Node(node, id, value, slice) ==
    [node |-> node, id |-> id, value |-> value, slice |-> slice]
NoAnnotation == Node("None", "", << >>, << >>)
Name(id) == Node("Name", id, << >>, << >>)
Leaf(node) == Node(node, "", << >>, << >>)
Subscript(value, slice) == Node("Subscript", "", << value >>, << slice >>)

Annotations == {
    NoAnnotation,
    Name("int"),
    Name("str"),
    Leaf("Constant"),
    Subscript(Name("list"), Name("int")),
    Subscript(Name("list"), Name("str")),
    Subscript(Name("dict"), Name("int")),
    Subscript(Leaf("Attribute"), Name("int")),
    Subscript(Name("list"), Leaf("Subscript")) }

\* _TypeConverter.visit_Name
TypeConverter_visit_Name(node) ==
    IF node.id # "int" THEN [raised |-> "SyntaxError", type |-> NoType]
    ELSE [raised |-> None, type |-> VarType("SHARED", SomeInt(0), "INT")]

\* Mutant of TypeConverter_visit_Subscript: the dimension of the list is
\* not counted.
TypeConverter_visit_Subscript_SameDims(node) ==
    LET value == node.value[1]
        slice == node.slice[1]
    IN IF value.node # "Name" THEN [raised |-> "SyntaxError", type |-> NoType]
       ELSE IF value.id # "list" THEN [raised |-> "SyntaxError", type |-> NoType]
       ELSE IF slice.node # "Name" THEN [raised |-> "SyntaxError", type |-> NoType]
       ELSE IF slice.id # "int" THEN [raised |-> "SyntaxError", type |-> NoType]
       ELSE LET subtype == TypeConverter_visit_Name(slice).type
            IN [raised |-> None,
                type |-> VarType("SHARED", subtype.dims, subtype.datatype)]

\* _TypeConverter.visit_Subscript
TypeConverter_visit_Subscript(node) ==
    LET value == node.value[1]
        slice == node.slice[1]
    IN IF value.node # "Name" THEN [raised |-> "SyntaxError", type |-> NoType]
       ELSE IF value.id # "list" THEN [raised |-> "SyntaxError", type |-> NoType]
       ELSE IF slice.node # "Name" THEN [raised |-> "SyntaxError", type |-> NoType]
       ELSE IF slice.id # "int" THEN [raised |-> "SyntaxError", type |-> NoType]
       ELSE LET subtype == TypeConverter_visit_Name(slice).type
            IN [raised |-> None,
                type |-> VarType("SHARED", SomeInt(subtype.dims[1] + 1),
                                 subtype.datatype)]

\* _TypeConverter(...).visit(annotation): a node with no visit method goes
\* to generic_visit, which raises.
TypeConverter_visit(node) ==
    CASE node.node = "Name" -> TypeConverter_visit_Name(node)
      [] node.node = "Subscript" -> TypeConverter_visit_Subscript(node)
      [] OTHER -> [raised |-> "SyntaxError", type |-> NoType]

\* Lines 443-451: the Parameter of one ast.arg, or the SyntaxError.
Parameter(arg) ==
    LET t == IF arg.annotation = NoAnnotation
             THEN [raised |-> None, type |-> VarType("PLAINTEXT", SomeInt(0), "INT")]
             ELSE TypeConverter_visit(arg.annotation)
    IN [raised |-> t.raised,
        param |-> [var |-> arg.arg, var_type |-> t.type,
                   default_values |-> << >>, party_idx |-> NoInt]]

\* Mutant of AssignPartyIdx: the counter advances for every parameter.
RECURSIVE AssignPartyIdx_CountsAll(_, _, _)
AssignPartyIdx_CountsAll(parameters, k, party_idx) ==
    IF k > Len(parameters) THEN parameters
    ELSE IF parameters[k].var_type.visibility = "SHARED"
    THEN AssignPartyIdx_CountsAll(
             [parameters EXCEPT ![k].party_idx = SomeInt(party_idx)],
             k + 1, party_idx + 1)
    ELSE AssignPartyIdx_CountsAll(parameters, k + 1, party_idx + 1)

\* Lines 453-457: the loop over the parameters from position k on, party_idx
\* the counter.
RECURSIVE AssignPartyIdx(_, _, _)
AssignPartyIdx(parameters, k, party_idx) ==
    IF k > Len(parameters) THEN parameters
    ELSE IF parameters[k].var_type.visibility = "SHARED"
    THEN AssignPartyIdx([parameters EXCEPT ![k].party_idx = SomeInt(party_idx)],
                        k + 1, party_idx + 1)
    ELSE AssignPartyIdx(parameters, k + 1, party_idx)

\* visit_FunctionDef(node): the parameters of the converted function, or the
\* SyntaxError.  body_converts: _convert_statements and _ReturnValueGetter
\* accept the body.
visit_FunctionDef(node) ==
    LET converted == [i \in DOMAIN node.args |-> Parameter(node.args[i])]
    IN IF node.has_decorators \/ node.body_empty
       THEN [raised |-> "SyntaxError", parameters |-> << >>]
       ELSE IF \E i \in DOMAIN converted : converted[i].raised # None
       THEN [raised |-> "SyntaxError", parameters |-> << >>]
       ELSE IF ~node.body_converts
       THEN [raised |-> "SyntaxError", parameters |-> << >>]
       ELSE [raised |-> None,
             parameters |-> AssignPartyIdx(
                 [i \in DOMAIN converted |-> converted[i].param], 1, 0)]

NoFunction == [raised |-> "pending", parameters |-> << >>]

InitFD ==
    /\ \E n \in 0..MaxParams : \E ann \in [1..n -> Annotations] :
         \E dec \in BOOLEAN, empty \in BOOLEAN, conv \in BOOLEAN :
           fd_args = [ args |-> [i \in 1..n |->
                                   [arg |-> ArgNames[i], annotation |-> ann[i]]],
                       has_decorators |-> dec,
                       body_empty |-> empty,
                       body_converts |-> conv ]
    /\ fd_out = NoFunction
    /\ IdleSSA
    /\ IdleVT
    /\ IdleMD
    /\ IdleBio
    /\ IdleFor

VisitFunctionDef ==
    /\ fd_out = NoFunction
    /\ fd_out' = visit_FunctionDef(fd_args)
    /\ UNCHANGED << fd_args, ssa_vars, vt_vars, md_vars, bio_vars, for_vars >>

NextFD == VisitFunctionDef

SpecFD == InitFD /\ [][NextFD]_vars

\* C10: in the converted function the k-th SHARED parameter has party_idx
\* k - 1, and every PLAINTEXT parameter has party_idx None.
C10_PartyIdx ==
    fd_out.raised = None =>
        \A i \in DOMAIN fd_out.parameters :
            LET P == fd_out.parameters[i]
                before == { j \in 1..(i - 1) :
                              fd_out.parameters[j].var_type.visibility = "SHARED" }
            IN /\ P.var_type.visibility = "SHARED"
                    => P.party_idx = SomeInt(Cardinality(before))
               /\ P.var_type.visibility = "PLAINTEXT" => P.party_idx = NoInt

\* Reached: a converted function with a PLAINTEXT parameter between two
\* SHARED ones, which carry 0 and 1.
C10_Witness ==
    /\ fd_out.raised = None
    /\ Len(fd_out.parameters) = 3
    /\ fd_out.parameters[1].party_idx = SomeInt(0)
    /\ fd_out.parameters[2].var_type.visibility = "PLAINTEXT"
    /\ fd_out.parameters[3].party_idx = SomeInt(1)


\* C16: every parameter of a converted function has a complete VarType of
\* datatype INT: PLAINTEXT with dims 0 if it has no annotation, SHARED with
\* dims 0 for `int`, SHARED with dims 1 for `list[int]`; any other annotation
\* raises SyntaxError.
C16_ParameterTypes ==
    fd_out # NoFunction =>
        /\ fd_out.raised = None =>
             \A i \in DOMAIN fd_out.parameters :
                 LET t == fd_out.parameters[i].var_type
                     annotation == fd_args.args[i].annotation
                 IN /\ is_complete(t)
                    /\ t.datatype = "INT"
                    /\ t.dims \in {SomeInt(0), SomeInt(1)}
                    /\ annotation = NoAnnotation
                         => t = VarType("PLAINTEXT", SomeInt(0), "INT")
                    /\ annotation = Name("int")
                         => t = VarType("SHARED", SomeInt(0), "INT")
                    /\ annotation = Subscript(Name("list"), Name("int"))
                         => t = VarType("SHARED", SomeInt(1), "INT")
        /\ (\E i \in DOMAIN fd_args.args :
                fd_args.args[i].annotation \notin
                    { NoAnnotation, Name("int"),
                      Subscript(Name("list"), Name("int")) })
             => fd_out.raised = "SyntaxError"

\* Reached: a converted function with a parameter of each supported kind.
C16_Witness ==
    /\ fd_out.raised = None
    /\ \E i \in DOMAIN fd_out.parameters :
          fd_out.parameters[i].var_type = VarType("PLAINTEXT", SomeInt(0), "INT")
    /\ \E i \in DOMAIN fd_out.parameters :
          fd_out.parameters[i].var_type = VarType("SHARED", SomeInt(0), "INT")
    /\ \E i \in DOMAIN fd_out.parameters :
          fd_out.parameters[i].var_type = VarType("SHARED", SomeInt(1), "INT")


(***************************************************************************)
(* _ModuleConverter.visit_Module (ast_to_restricted_ast.py).  The module   *)
(* is a list of one-line statements: statement k is on line k of the       *)
(* source text, and every ast node carries its col_offset.  An expression  *)
(* node is [node, id, vtype, value, func, args, col]: node the class of    *)
(* the node, id the id of a Name, vtype and value the type and the value   *)
(* of a Constant, func and args the children of a Call; the elts of a List *)
(* are its args.  A Python value is [type, v, of]: type the class of the   *)
(* value, v its number (the numbers of its elements for a list; True is 1  *)
(* and False is 0) and of the classes of the elements of a list.           *)
(***************************************************************************)
MaxStmts == 4       \* statements of the module

Expr(node, id, vtype, value, func, args, col) ==
    [node |-> node, id |-> id, vtype |-> vtype, value |-> value,
     func |-> func, args |-> args, col |-> col]
NoExpr == Expr("None", "", "", << >>, << >>, << >>, 0)
Num(n, col) == Expr("Constant", "", "int", << n >>, << >>, << >>, col)
Str(col) == Expr("Constant", "", "str", << >>, << >>, << >>, col)
NameConstant(b, col) == Expr("Constant", "", "bool", << b >>, << >>, << >>, col)
List(elts, col) == Expr("List", "", "", << >>, << >>, elts, col)
NameExpr(id, col) == Expr("Name", id, "", << >>, << >>, << >>, col)
Attribute(col) == Expr("Attribute", "", "", << >>, << >>, << >>, col)
SubscriptTarget(col) == Expr("Subscript", "", "", << >>, << >>, << >>, col)
CallExpr(func, args, col) == Expr("Call", "", "", << >>, << func >>, args, col)

\* A statement of the module: [node, target, value, name, fdef, err_col,
\* text]; fdef is the FunctionDef as visit_FunctionDef reads it, err_col the
\* col_offset of the node of the definition that is not supported, text the
\* source line.
Stmt(node, target, value, name, fdef, err_col, text) ==
    [node |-> node, target |-> target, value |-> value, name |-> name,
     fdef |-> fdef, err_col |-> err_col, text |-> text]

NoFdef == [args |-> << >>, has_decorators |-> FALSE, body_empty |-> FALSE,
           body_converts |-> FALSE]
FunctionDef(name, annotations, err_col, text) ==
    Stmt("FunctionDef", NoExpr, NoExpr, name,
         [args |-> [i \in DOMAIN annotations |->
                      [arg |-> ArgNames[i], annotation |-> annotations[i]]],
          has_decorators |-> FALSE, body_empty |-> FALSE,
          body_converts |-> TRUE],
         err_col, text)
AssignStmt(target, value, text) ==
    Stmt("Assign", target, value, "", NoFdef, 0, text)
ExprStmt(value, text) == Stmt("Expr", NoExpr, value, "", NoFdef, 0, text)
Import(text) == Stmt("Import", NoExpr, NoExpr, "", NoFdef, 0, text)

\* The statements the modules are made of.
ModuleStmts == {
    FunctionDef("f", << NoAnnotation, NoAnnotation >>, 0,
                "def f(C, D): return C"),
    FunctionDef("g", << Name("int") >>, 0, "def g(C: int): return C"),
    FunctionDef("h", << Name("str") >>, 9, "def h(C: str): return C"),
    AssignStmt(NameExpr("C", 0), List(<< Num(1, 5), Num(2, 8) >>, 4),
               "C = [1, 2]"),
    AssignStmt(NameExpr("C", 0),
               List(<< NameConstant(1, 5), Num(2, 11) >>, 4), "C = [True, 2]"),
    AssignStmt(NameExpr("C", 0), Num(7, 4), "C = 7"),
    AssignStmt(NameExpr("C", 0), Str(4), "C = 's'"),
    AssignStmt(SubscriptTarget(0), Num(1, 7), "X[0] = 1"),
    Import("import typing"),
    ExprStmt(Str(0), "'doc'"),
    ExprStmt(CallExpr(NameExpr("f", 0), << Num(3, 2), NameExpr("C", 5) >>, 0),
             "f(3, C)"),
    ExprStmt(CallExpr(NameExpr("f", 0), << Num(4, 2), NameExpr("U", 5) >>, 0),
             "f(4, U)"),
    ExprStmt(CallExpr(NameExpr("f", 0), << Num(5, 2) >>, 0), "f(5)"),
    ExprStmt(CallExpr(NameExpr("f", 0),
                      << Num(1, 2), List(<< Num(2, 6) >>, 5) >>, 0),
             "f(1, [2])"),
    ExprStmt(CallExpr(NameExpr("f", 0),
                      << Num(1, 2),
                         List(<< NameConstant(1, 6), NameConstant(0, 12) >>,
                              5) >>, 0),
             "f(1, [True, False])"),
    ExprStmt(CallExpr(NameExpr("g", 0), << Num(6, 2) >>, 0), "g(6)"),
    ExprStmt(CallExpr(NameExpr("print", 0),
                      << CallExpr(NameExpr("f", 6),
                                  << List(<< Num(8, 9), Num(9, 12) >>, 8),
                                     Num(4, 16) >>,
                                  6) >>, 0),
             "print(f([8, 9], 4))"),
    ExprStmt(CallExpr(NameExpr("print", 0),
                      << CallExpr(NameExpr("g", 6), << Num(2, 8) >>, 6),
                         Num(1, 12) >>, 0),
             "print(g(2), 1)"),
    ExprStmt(CallExpr(Attribute(0), << Num(1, 4) >>, 0), "m.h(1)") }

FileName == "input.py"

\* self.source_code_info.text.splitlines()
SourceLines(node) == [k \in DOMAIN node.body |-> node.body[k].text]

NoError == [filename |-> "", lineno |-> 0, offset |-> 0, text |-> ""]

\* _StrictNodeVisitor.raise_syntax_error(node) for a node of line lineno
raise_syntax_error(module, lineno, col_offset) ==
    [raised |-> "SyntaxError",
     error |-> [filename |-> module.filename, lineno |-> lineno,
                offset |-> col_offset + 1,
                text |-> SourceLines(module)[lineno]]]

Raise(exception) == [raised |-> exception, error |-> NoError]
Returned == [raised |-> None, error |-> NoError]

\* Lines 476-480: the positions of the FunctionDef statements of the body.
FunctionDefs(module) ==
    { k \in DOMAIN module.body : module.body[k].node = "FunctionDef" }

\* A Python value: an int, a bool, a float, a str, or the list of the
\* values elts.
IntValue(n) == [type |-> "int", v |-> << n >>, of |-> << >>]
BoolValue(b) == [type |-> "bool", v |-> << b >>, of |-> << >>]
FloatValue == [type |-> "float", v |-> << >>, of |-> << >>]
StrValue == [type |-> "str", v |-> << >>, of |-> << >>]
ListValue(elts) ==
    [type |-> "list", v |-> [i \in DOMAIN elts |-> elts[i].v[1]],
     of |-> [i \in DOMAIN elts |-> elts[i].type]]
NoValue == [type |-> "none", v |-> << >>, of |-> << >>]

\* The value of an ast.Constant
ConstantValue(node) == [type |-> node.vtype, v |-> node.value, of |-> << >>]

\* isinstance(value, int): bool is a subclass of int.
IsInstanceInt(value) == value.type \in {"int", "bool"}

\* Mutant of get_root_call: a call of another function is never looked into.
RECURSIVE get_root_call_NoNesting(_, _)
get_root_call_NoNesting(name, func) ==
    IF func.func[1].node # "Name"
    THEN [raised |-> "AssertionError", call |-> << >>]
    ELSE IF func.func[1].id = name
    THEN [raised |-> None, call |-> << func >>]
    ELSE [raised |-> None, call |-> << >>]

\* get_root_call (lines 482-488): the call of the main function that func
\* is or wraps, << >> for None.
RECURSIVE get_root_call(_, _)
get_root_call(name, func) ==
    IF func.func[1].node # "Name"
    THEN [raised |-> "AssertionError", call |-> << >>]
    ELSE IF func.func[1].id = name
    THEN [raised |-> None, call |-> << func >>]
    ELSE IF Len(func.args) # 1 \/ func.args[1].node # "Call"
    THEN [raised |-> None, call |-> << >>]
    ELSE get_root_call(name, func.args[1])

\* expr_to_constant (lines 490-501): [ok, value]; ok is FALSE when the
\* expression is rejected.  An ast.Num is a Constant of an int, a float or
\* a complex, never of a bool; the elements of a list are tested with
\* isinstance(e.value, int), which a bool passes, and are returned as they
\* are.
expr_to_constant(expr) ==
    IF expr.node = "Constant" /\ expr.vtype = "int"
    THEN [ok |-> TRUE, value |-> IntValue(expr.value[1])]
    ELSE IF /\ expr.node \in {"List", "Tuple"}
            /\ \A i \in DOMAIN expr.args :
                  /\ expr.args[i].node = "Constant"
                  /\ IsInstanceInt(ConstantValue(expr.args[i]))
    THEN [ok |-> TRUE,
          value |-> ListValue([i \in DOMAIN expr.args |->
                                 ConstantValue(expr.args[i])])]
    ELSE [ok |-> FALSE, value |-> NoValue]

\* Lines 520-534: the arguments of the call from position i on; [result,
\* parameters], the parameters as the loop leaves them.
RECURSIVE AppendArguments(_, _, _, _, _, _)
AppendArguments(module, lineno, values, parameters, args, i) ==
    IF i > Len(args) THEN [result |-> Returned, parameters |-> parameters]
    ELSE LET arg == args[i]
             known == arg.node = "Name" /\ arg.id \in DOMAIN values
             const == expr_to_constant(arg)
         IN IF arg.node = "Name" /\ ~known
            THEN [result |-> raise_syntax_error(module, lineno, arg.col),
                  parameters |-> parameters]
            ELSE IF arg.node # "Name" /\ ~const.ok
            THEN [result |-> raise_syntax_error(module, lineno, arg.col),
                  parameters |-> parameters]
            ELSE AppendArguments(module, lineno, values,
                    [parameters EXCEPT ![i].default_values =
                        Append(@, IF known THEN values[arg.id]
                                  ELSE const.value)],
                    args, i + 1)

\* Mutant of SetVarValue: a name keeps the value of its first assignment.
SetVarValue_KeepFirst(values, id, value) ==
    [n \in DOMAIN values \cup {id} |->
       IF n \in DOMAIN values THEN values[n] ELSE value]

\* Line 509: var_values[id] = value.
SetVarValue(values, id, value) ==
    [n \in DOMAIN values \cup {id} |-> IF n = id THEN value ELSE values[n]]

\* One turn of the loop of lines 503-534, for statement number k:
\* [result, var_values, parameters].
visit_Module_statement(module, k, values, main) ==
    LET statement == module.body[k]
        same == [result |-> Returned, var_values |-> values,
                 parameters |-> main.parameters]
    IN IF statement.node = "Assign"
       THEN IF statement.target.node # "Name"
            THEN [same EXCEPT !.result =
                     raise_syntax_error(module, k, statement.target.col)]
            ELSE LET const == expr_to_constant(statement.value)
                 IN IF ~const.ok
                    THEN [same EXCEPT !.result =
                            raise_syntax_error(module, k, statement.value.col)]
                    ELSE [same EXCEPT !.var_values =
                            SetVarValue(values, statement.target.id,
                                        const.value)]
       ELSE IF statement.node = "Expr" /\ statement.value.node = "Call"
       THEN LET root == get_root_call(main.name, statement.value)
            IN IF root.raised # None
               THEN [same EXCEPT !.result = Raise(root.raised)]
               ELSE IF root.call = << >> THEN same
               ELSE LET call == root.call[1]
                    IN IF Len(call.args) # Len(main.parameters)
                       THEN [same EXCEPT !.result =
                               raise_syntax_error(module, k, call.col)]
                       ELSE LET r == AppendArguments(module, k, values,
                                        main.parameters, call.args, 1)
                            IN [same EXCEPT !.result = r.result,
                                            !.parameters = r.parameters]
       ELSE same

NoMain == [name |-> "", parameters |-> << >>]
NoConversion == [raised |-> "pending", error |-> NoError]

InitMD ==
    /\ \E n \in 0..MaxStmts : \E body \in [1..n -> ModuleStmts] :
          md_node = [body |-> body, filename |-> FileName]
    /\ md_pc = "start"
    /\ md_i = 0
    /\ main_function = NoMain
    /\ var_values = << >>
    /\ md_out = NoConversion
    /\ IdleSSA
    /\ IdleVT
    /\ IdleFD
    /\ IdleBio
    /\ IdleFor

\* Lines 474-480: the first FunctionDef of the module is converted.
MainFunction ==
    /\ md_pc = "start"
    /\ IF FunctionDefs(md_node) = {}
       THEN /\ md_out' = Raise("IndexError")
            /\ md_pc' = "failed"
            /\ UNCHANGED main_function
       ELSE LET k == CHOOSE a \in FunctionDefs(md_node) :
                        \A b \in FunctionDefs(md_node) : a <= b
                statement == md_node.body[k]
                function == visit_FunctionDef(statement.fdef)
            IN IF function.raised # None
               THEN /\ md_out' = raise_syntax_error(md_node, k, statement.err_col)
                    /\ md_pc' = "failed"
                    /\ UNCHANGED main_function
               ELSE /\ main_function' = [name |-> statement.name,
                                         parameters |-> function.parameters]
                    /\ md_pc' = "loop"
                    /\ UNCHANGED md_out
    /\ UNCHANGED << md_node, md_i, var_values, ssa_vars, vt_vars, fd_vars,
                    bio_vars, for_vars >>

\* Lines 503-534: the next statement of the module.
Statement ==
    /\ md_pc = "loop"
    /\ md_i < Len(md_node.body)
    /\ LET r == visit_Module_statement(md_node, md_i + 1, var_values,
                                       main_function)
       IN /\ md_i' = md_i + 1
          /\ var_values' = r.var_values
          /\ main_function' = [main_function EXCEPT !.parameters = r.parameters]
          /\ IF r.result.raised # None
             THEN md_out' = r.result /\ md_pc' = "failed"
             ELSE UNCHANGED << md_out, md_pc >>
    /\ UNCHANGED << md_node, ssa_vars, vt_vars, fd_vars, bio_vars, for_vars >>

\* Line 536: return main_function.
ReturnMain ==
    /\ md_pc = "loop"
    /\ md_i = Len(md_node.body)
    /\ md_pc' = "done"
    /\ md_out' = Returned
    /\ UNCHANGED << md_node, md_i, main_function, var_values, ssa_vars,
                    vt_vars, fd_vars, bio_vars, for_vars >>

NextMD == MainFunction \/ Statement \/ ReturnMain

SpecMD == InitMD /\ [][NextMD]_vars


(***************************************************************************)
(* Claims about visit_Module                                               *)
(***************************************************************************)
\* The call of the function called name that expression e is, or that it
\* wraps as the sole argument of enclosing calls; << >> if there is none.
RECURSIVE MainCallOf(_, _)
MainCallOf(name, e) ==
    IF e.node # "Call" THEN << >>
    ELSE IF e.func[1].node = "Name" /\ e.func[1].id = name THEN << e >>
    ELSE IF Len(e.args) = 1 THEN MainCallOf(name, e.args[1])
    ELSE << >>

\* The statements of the module that call the main function, in textual
\* order.
CallSites ==
    SetToSortedSeq({ k \in DOMAIN md_node.body :
                       /\ md_node.body[k].node = "Expr"
                       /\ MainCallOf(main_function.name,
                                     md_node.body[k].value) # << >> })

\* The value of expression e on line k: a constant, or the constant of the
\* last assignment to the name above line k.
ValueOn(k, e) ==
    IF e.node = "Name"
    THEN LET above == { a \in 1..(k - 1) :
                          /\ md_node.body[a].node = "Assign"
                          /\ md_node.body[a].target.node = "Name"
                          /\ md_node.body[a].target.id = e.id }
             last == CHOOSE a \in above : \A b \in above : b <= a
         IN expr_to_constant(md_node.body[last].value).value
    ELSE expr_to_constant(e).value

\* C11: after a successful conversion, parameter i holds the values of the
\* i-th arguments of the calls of the main function, one per call, in
\* textual order; so all default_values lists are as long as there are calls.
C11_DefaultValues ==
    md_pc = "done" =>
        \A i \in DOMAIN main_function.parameters :
            main_function.parameters[i].default_values =
                [c \in DOMAIN CallSites |->
                   ValueOn(CallSites[c],
                           MainCallOf(main_function.name,
                                      md_node.body[CallSites[c]].value)[1].args[i])]

\* Reached: a conversion that returned a main function of two parameters
\* called twice, once inside another call, with different first arguments.
C11_Witness ==
    /\ md_pc = "done"
    /\ Len(main_function.parameters) = 2
    /\ Len(main_function.parameters[1].default_values) = 2
    /\ main_function.parameters[1].default_values[1]
         # main_function.parameters[1].default_values[2]
    /\ \E k \in DOMAIN md_node.body :
         /\ md_node.body[k].node = "Expr"
         /\ md_node.body[k].value.node = "Call"
         /\ md_node.body[k].value.func[1].id = "print"

\* C12 (as claimed): a conversion that does not return ends with a
\* SyntaxError that carries the filename, the line of a statement of the
\* module, a column of that line and the text of the line; no other
\* exception ends it.
C12_OnlySyntaxErrors ==
    md_pc = "failed" =>
        /\ md_out.raised = "SyntaxError"
        /\ md_out.error.filename = md_node.filename
        /\ md_out.error.lineno \in DOMAIN md_node.body
        /\ md_out.error.offset >= 1
        /\ md_out.error.text = md_node.body[md_out.error.lineno].text


\* The statements among the first n of the module that call the main
\* function, in textual order.
CallSitesTo(n) ==
    SetToSortedSeq({ k \in 1..n :
                       /\ md_node.body[k].node = "Expr"
                       /\ MainCallOf(main_function.name,
                                     md_node.body[k].value) # << >> })

\* The assignments to the name of expression e among statements a..b.
AssignmentsTo(e, a, b) ==
    { s \in a..b : /\ md_node.body[s].node = "Assign"
                   /\ md_node.body[s].target.node = "Name"
                   /\ md_node.body[s].target.id = e.id }

\* C26: sample values are resolved in textual order.  While the statements
\* are converted, the default_values of parameter i are, for the calls of
\* the main function converted so far, the i-th argument as a constant or,
\* for a name, the value of the latest assignment above the call: an
\* assignment converted later changes none of them.  A call with the right
\* number of arguments that names a variable with no assignment above it
\* ends the conversion with SyntaxError on the line of the call, whatever
\* follows it.
C26_TextualOrder ==
    /\ md_pc \in {"loop", "done"} =>
         \A i \in DOMAIN main_function.parameters :
             main_function.parameters[i].default_values =
                 [c \in DOMAIN CallSitesTo(md_i) |->
                    ValueOn(CallSitesTo(md_i)[c],
                            MainCallOf(main_function.name,
                               md_node.body[CallSitesTo(md_i)[c]].value)[1].args[i])]
    /\ md_pc \in {"loop", "done", "failed"} =>
         \A c \in DOMAIN CallSitesTo(md_i) :
             LET k == CallSitesTo(md_i)[c]
                 call == MainCallOf(main_function.name, md_node.body[k].value)[1]
             IN (/\ Len(call.args) = Len(main_function.parameters)
                 /\ \E a \in DOMAIN call.args :
                       /\ call.args[a].node = "Name"
                       /\ AssignmentsTo(call.args[a], 1, k - 1) = {})
                  => /\ md_pc = "failed"
                     /\ md_out.raised = "SyntaxError"
                     /\ md_out.error.lineno = k

\* Reached: a conversion that returned, with a call of the main function
\* that names a variable assigned above the call and assigned another value
\* below it; the parameter holds the value from above.
C26_Witness ==
    /\ md_pc = "done"
    /\ \E c \in DOMAIN CallSites :
         LET k == CallSites[c]
             call == MainCallOf(main_function.name, md_node.body[k].value)[1]
         IN \E i \in DOMAIN call.args :
               /\ call.args[i].node = "Name"
               /\ AssignmentsTo(call.args[i], 1, k - 1) # {}
               /\ \E s \in AssignmentsTo(call.args[i], k + 1, Len(md_node.body)) :
                     expr_to_constant(md_node.body[s].value).value
                        # main_function.parameters[i].default_values[c]
               /\ main_function.parameters[i].default_values[c]
                     = ValueOn(k, call.args[i])


(***************************************************************************)
(* The biometric benchmark (benchmarks/biometric.py): the nearest row of   *)
(* the database S (N rows of D features) to the vector C, by squared       *)
(* distance.  Lists are indexed from 0 in the program and from 1 here.     *)
(***************************************************************************)
MaxN == 4       \* rows asked for
MaxD == 4       \* features asked for

\* Lines 23-24
LiteralC == << 1, 2, 3, 4 >>
LiteralS == << 4, 5, 2, 10, 2, 120, 4, 10, 99, 88, 77, 66, 55, 44, 33, 22 >>

\* Line 25: biometric(C, 4, S, 4)
LiteralArgs == [C |-> LiteralC, D |-> 4, S |-> LiteralS, N |-> 4]

\* The vectors tried: the literal one, and rows of the database.
BioVectors == { LiteralC, << 2, 120, 4, 10 >>, << 55, 44, 33, 22 >> }

\* Mutant of SquaredDifference: the absolute difference.
SquaredDifference_Absolute(s, c) == IF s >= c THEN s - c ELSE c - s

\* Lines 14-15: d = s - c; p = d * d
SquaredDifference(s, c) == (s - c) * (s - c)

InitBio ==
    /\ \E c \in BioVectors, d \in 0..MaxD, n \in 0..MaxN :
          bio_args = [C |-> c, D |-> d, S |-> LiteralS, N |-> n]
    /\ bio_pc = "start"
    /\ bio_i = 0
    /\ bio_j = 0
    /\ bio_sum = 0
    /\ min_sum = 0
    /\ min_index = 0
    /\ IdleSSA
    /\ IdleVT
    /\ IdleFD
    /\ IdleMD
    /\ IdleFor

\* Lines 9-10
Enter ==
    /\ bio_pc = "start"
    /\ min_sum' = 10000
    /\ min_index' = -1
    /\ bio_i' = 0
    /\ bio_pc' = "outer"
    /\ UNCHANGED << bio_args, bio_j, bio_sum, ssa_vars, vt_vars, fd_vars,
                    md_vars, for_vars >>

\* Lines 11-12 and 21: the next i of range(N), or the return.  bio_i counts
\* the rows that are done.
OuterLoop ==
    /\ bio_pc = "outer"
    /\ IF bio_i < bio_args.N
       THEN /\ bio_sum' = 0
            /\ bio_j' = 0
            /\ bio_pc' = "inner"
       ELSE /\ bio_pc' = "returned"
            /\ UNCHANGED << bio_sum, bio_j >>
    /\ UNCHANGED << bio_args, bio_i, min_sum, min_index, ssa_vars, vt_vars,
                    fd_vars, md_vars, for_vars >>

\* Lines 13-16: the next j of range(D); an index past the end of S or of C
\* raises IndexError.
InnerLoop ==
    /\ bio_pc = "inner"
    /\ bio_j < bio_args.D
    /\ LET index == bio_i * bio_args.D + bio_j
       IN IF index >= Len(bio_args.S) \/ bio_j >= Len(bio_args.C)
          THEN /\ bio_pc' = "failed"
               /\ UNCHANGED << bio_sum, bio_j >>
          ELSE /\ bio_sum' = bio_sum + SquaredDifference(bio_args.S[index + 1],
                                                         bio_args.C[bio_j + 1])
               /\ bio_j' = bio_j + 1
               /\ UNCHANGED bio_pc
    /\ UNCHANGED << bio_args, bio_i, min_sum, min_index, ssa_vars, vt_vars,
                    fd_vars, md_vars, for_vars >>

\* Lines 17-19
Compare ==
    /\ bio_pc = "inner"
    /\ bio_j >= bio_args.D
    /\ IF bio_sum < min_sum
       THEN min_sum' = bio_sum /\ min_index' = bio_i
       ELSE UNCHANGED << min_sum, min_index >>
    /\ bio_i' = bio_i + 1
    /\ bio_pc' = "outer"
    /\ UNCHANGED << bio_args, bio_j, bio_sum, ssa_vars, vt_vars, fd_vars,
                    md_vars, for_vars >>

NextBio == Enter \/ OuterLoop \/ InnerLoop \/ Compare

SpecBio == InitBio /\ [][NextBio]_vars

\* C13 (as claimed): on the literal arguments biometric returns (30, 0).
C13_LiteralResult30 ==
    (bio_pc = "returned" /\ bio_args = LiteralArgs) =>
        (min_sum = 30 /\ min_index = 0)

\* C13 (amended): on the literal arguments C = [1,2,3,4], D = 4, S = [4,5,2,10,
\* 2,120,4,10, 99,88,77,66, 55,44,33,22], N = 4, biometric returns (55, 0).
C13_LiteralResult ==
    (bio_pc = "returned" /\ bio_args = LiteralArgs) =>
        (min_sum = 55 /\ min_index = 0)

\* Reached: biometric returned on the literal arguments, after four rows.
C13_Witness ==
    /\ bio_pc = "returned"
    /\ bio_args = LiteralArgs
    /\ bio_i = 4


(***************************************************************************)
(* CFGFunction.__str__ (ast_shared.py) on the function tac_cfg_to_ssa      *)
(* returns: the edges of the body.  An edge is [u, v, attributes], the     *)
(* attributes a dictionary from attribute names to values.                 *)
(***************************************************************************)
BranchKinds == {"UNCONDITIONAL", "TRUE", "FALSE"}

\* The branch kind the CFG builder stores on the n-th out-edge of block X:
\* UNCONDITIONAL for a Jump, TRUE and FALSE for a ConditionalJump.
BranchKindOf(f, X, n) ==
    IF f.terminator[X].kind = "ConditionalJump"
    THEN (IF n = 1 THEN "TRUE" ELSE "FALSE")
    ELSE "UNCONDITIONAL"

\* G.edges(data=key): the edges in the order of their source nodes, each with
\* the value of attribute key, None where the edge does not have it.
RECURSIVE EdgesFrom(_, _, _, _)
EdgesFrom(succ, attributes, key, X) ==
    IF X > Len(succ) THEN << >>
    ELSE [n \in DOMAIN succ[X] |->
            << X, succ[X][n],
               IF key \in DOMAIN attributes[X][n] THEN attributes[X][n][key]
               ELSE None >>]
         \o EdgesFrom(succ, attributes, key, X + 1)

\* The attributes of the edges of tac_cfg_function.body.
tac_cfg_edge_attributes(f) ==
    [X \in Blocks(f) |-> [n \in DOMAIN f.succ[X] |->
        [branch_kind |-> BranchKindOf(f, X, n)]]]

\* Lines 77-88 of _tac_cfg_to_ssa_struct: the attributes of the edges of the
\* graph of the ssa.Function.
ssa_edge_attributes(f) ==
    LET edges == EdgesFrom(f.succ, tac_cfg_edge_attributes(f), "branch_kind", 1)
        kind(X, n) == (CHOOSE e \in Range(edges) :
                          e[1] = X /\ e[2] = f.succ[X][n])[3]
    IN [X \in Blocks(f) |-> [n \in DOMAIN f.succ[X] |->
          [branch_kind |-> kind(X, n)]]]

\* Lines 415-420 of CFGFunction.__str__: the printed edges, blocks by their
\* index in body.nodes (from 0).
CFGFunction_str_edges(f) ==
    LET edges == EdgesFrom(f.succ, ssa_edge_attributes(f), "label", 1)
    IN [k \in DOMAIN edges |-> << edges[k][1] - 1, edges[k][2] - 1, edges[k][3] >>]

\* C14 (as claimed): the third component of every edge printed for the
\* function tac_cfg_to_ssa returns is the branch kind stored on the edge,
\* never a missing value.
C14_EdgesPrintBranchKind ==
    pc = "returned" =>
        \A X \in Blocks(fn) : \A n \in DOMAIN fn.succ[X] :
            \E k \in DOMAIN CFGFunction_str_edges(fn) :
                /\ CFGFunction_str_edges(fn)[k][1] = X - 1
                /\ CFGFunction_str_edges(fn)[k][2] = fn.succ[X][n] - 1
                /\ CFGFunction_str_edges(fn)[k][3] = BranchKindOf(fn, X, n)
                /\ CFGFunction_str_edges(fn)[k][3] \in BranchKinds


(***************************************************************************)
(* _StatementConverter.visit_For with _RangeBoundsGetter and               *)
(* _LoopBoundConverter (ast_to_restricted_ast.py).  The ast.For is         *)
(* [orelse, iter, keywords, target, body_converts]: orelse whether the     *)
(* loop has an else, iter the expression looped over, keywords whether the *)
(* call has keyword arguments, target the loop variable, body_converts     *)
(* whether _convert_statements accepts the body.                           *)
(***************************************************************************)
MaxRangeArgs == 3       \* arguments of the call looped over

\* A constant of the source with its Python value.
ConstantExpr(value) ==
    Expr("Constant", "", value.type, value.v, << >>, << >>, 0)
\* The expressions tried as loop bounds.
BoundExprs == {
    ConstantExpr(IntValue(0)), ConstantExpr(IntValue(5)),
    ConstantExpr(BoolValue(1)), ConstantExpr(StrValue),
    ConstantExpr(FloatValue), NameExpr("N", 0),
    Expr("UnaryOp", "", "", << >>, << >>, << >>, 0) }

\* The expressions tried as the callee.
Callees == { NameExpr("range", 0), NameExpr("len", 0), Attribute(0) }

\* restricted_ast.Constant and restricted_ast.Var
Constant(value, datatype) ==
    [kind |-> "Constant", name |-> "", value |-> value, datatype |-> datatype]
RestrictedVar(name) ==
    [kind |-> "Var", name |-> name, value |-> NoValue, datatype |-> ""]
NoBound == [kind |-> "None", name |-> "", value |-> NoValue, datatype |-> ""]

\* _LoopBoundConverter(...).visit(node), lines 78-88
LoopBoundConverter_visit(node) ==
    CASE node.node = "Constant" ->
            IF ~IsInstanceInt(ConstantValue(node))
            THEN [raised |-> "SyntaxError", bound |-> NoBound]
            ELSE [raised |-> None,
                  bound |-> Constant(ConstantValue(node), "INT")]
      [] node.node = "Name" ->
            [raised |-> None, bound |-> RestrictedVar(node.id)]
      [] OTHER -> [raised |-> "SyntaxError", bound |-> NoBound]

NoBounds == [raised |-> "SyntaxError", low |-> NoBound, high |-> NoBound]

\* _RangeBoundsGetter(...).visit(node.iter), lines 91-113; keywords: whether
\* node.keywords is not empty.
RangeBoundsGetter_visit(iter, keywords) ==
    IF iter.node # "Call" THEN NoBounds
    ELSE IF iter.func[1].node # "Name" \/ iter.func[1].id # "range" THEN NoBounds
    ELSE IF keywords THEN NoBounds
    ELSE LET bounds == [a \in DOMAIN iter.args |->
                          LoopBoundConverter_visit(iter.args[a])]
         IN IF \E a \in DOMAIN bounds : bounds[a].raised # None THEN NoBounds
            ELSE IF Len(bounds) = 1
            THEN [raised |-> None, low |-> Constant(IntValue(0), "INT"),
                  high |-> bounds[1].bound]
            ELSE IF Len(bounds) = 2
            THEN [raised |-> None, low |-> bounds[1].bound,
                  high |-> bounds[2].bound]
            ELSE NoBounds

NoFor == [raised |-> "SyntaxError", counter |-> "", bound_low |-> NoBound,
          bound_high |-> NoBound]

\* _StatementConverter.visit_For, lines 329-341
visit_For(node) ==
    IF node.orelse THEN NoFor
    ELSE LET bounds == RangeBoundsGetter_visit(node.iter, node.keywords)
         IN IF bounds.raised # None THEN NoFor
            ELSE IF node.target.node # "Name" THEN NoFor
            ELSE IF ~node.body_converts THEN NoFor
            ELSE [raised |-> None, counter |-> node.target.id,
                  bound_low |-> bounds.low, bound_high |-> bounds.high]

ForPending == [raised |-> "pending", counter |-> "", bound_low |-> NoBound,
               bound_high |-> NoBound]

InitFor ==
    /\ \E orelse \in BOOLEAN, keywords \in BOOLEAN, body_converts \in BOOLEAN,
          target \in { NameExpr("i", 0), SubscriptTarget(0) },
          n \in 0..MaxRangeArgs, callee \in Callees :
          \E args \in [1..n -> BoundExprs] :
              \E iter \in { CallExpr(callee, args, 0), NameExpr("N", 0) } :
                  for_node = [orelse |-> orelse, iter |-> iter,
                              keywords |-> keywords, target |-> target,
                              body_converts |-> body_converts]
    /\ for_out = ForPending
    /\ IdleSSA
    /\ IdleVT
    /\ IdleFD
    /\ IdleMD
    /\ IdleBio

VisitFor ==
    /\ for_out = ForPending
    /\ for_out' = visit_For(for_node)
    /\ UNCHANGED << for_node, ssa_vars, vt_vars, fd_vars, md_vars, bio_vars >>

NextFor == VisitFor

SpecFor == InitFor /\ [][NextFor]_vars

\* A bound the claim allows: a Var, or a Constant of datatype INT that holds
\* an integer.
IsLoopBound(b) ==
    \/ b.kind = "Var"
    \/ b.kind = "Constant" /\ b.datatype = "INT" /\ b.value.type = "int"

\* The loop is over range(...) with one or two arguments and no keywords.
IsRangeCall(node) ==
    /\ node.iter.node = "Call"
    /\ node.iter.func[1].node = "Name"
    /\ node.iter.func[1].id = "range"

\* C15 (as claimed): a converted For has low = Constant(0, INT), high = h for
\* range(h) and low = l, high = h for range(l, h); each bound is a Var or a
\* Constant of datatype INT holding an integer; a range call with keywords,
\* with 0 or more than 2 arguments, or with another bound expression raises
\* SyntaxError.
C15_LoopBounds ==
    for_out.raised # "pending" =>
        /\ for_out.raised = None =>
             /\ IsRangeCall(for_node)
             /\ IsLoopBound(for_out.bound_low)
             /\ IsLoopBound(for_out.bound_high)
             /\ Len(for_node.iter.args) = 1 =>
                  /\ for_out.bound_low = Constant(IntValue(0), "INT")
                  /\ for_out.bound_high =
                        LoopBoundConverter_visit(for_node.iter.args[1]).bound
             /\ Len(for_node.iter.args) = 2 =>
                  /\ for_out.bound_low =
                        LoopBoundConverter_visit(for_node.iter.args[1]).bound
                  /\ for_out.bound_high =
                        LoopBoundConverter_visit(for_node.iter.args[2]).bound
        /\ (IsRangeCall(for_node) /\
              (\/ for_node.keywords
               \/ Len(for_node.iter.args) \notin {1, 2}
               \/ \E a \in DOMAIN for_node.iter.args :
                     /\ for_node.iter.args[a].node # "Name"
                     /\ ~(for_node.iter.args[a].node = "Constant"
                            /\ for_node.iter.args[a].vtype = "int")))
             => for_out.raised = "SyntaxError"

=============================================================================
